---- MODULE Spec2Model ----
(***************************************************************************)
(* Purchasing workflow engine of AEGIS_CC: the purchase-request (PR)       *)
(* lifecycle RPCs of "Migration 0009 - PR Workflow RPCs"                   *)
(* (db/migrations/0003_read_models_views.sql, lines 444-1088) and the      *)
(* PR -> PO conversion RPC (same file, lines 323-439).  The Phase 9        *)
(* functions replace the Phase 5 / Phase 7 functions of the same           *)
(* signature, so they are the ones a caller of create / update header /    *)
(* upsert line / submit / approve / reject reaches.                        *)
(*                                                                         *)
(* Every RPC is one transaction.  The PR RPCs take the PR row FOR UPDATE   *)
(* before they read it, so between that lock and the commit nobody else    *)
(* touches the row or its lines: such an RPC is one atomic action that is  *)
(* blocked while another transaction holds the row lock.  The conversion   *)
(* RPC is modelled in three steps (call, lock + read, body + commit) so    *)
(* that two conversions of the same PR can be in flight at once.           *)
(*                                                                         *)
(* Not modelled: updated_at / updated_by / created_by stamps of a PR, uom, *)
(* catalog / SOV / timeline links, sort_order, the jsonb metadata and the  *)
(* created_by of a log entry, the p_message argument (the default message *)
(* is logged), and converted_at, ship_to, unit and the notes a conversion  *)
(* copies.  The conversion RPC names the line columns pr_id, item_name     *)
(* and unit_cost; they are the purchase_request_id, description and        *)
(* est_unit_cost the Phase 9 RPCs write.                                   *)
(*                                                                         *)
(* Purchase orders and receipts are written by the RPCs of Phase 7         *)
(* (db/migrations/0007_purchasing_security_rls_rpcs.sql, lines 672-1199)   *)
(* and by the Phase 5 RPCs that Phase 7 does not replace: the 13-argument  *)
(* create_purchase_order, set_po_status and set_receipt_status.  The       *)
(* receipt coverage of a PO line is the view v_po_line_receipt_coverage    *)
(* (db/migrations/0006_purchasing_read_models.sql).  Not modelled there:   *)
(* the Phase 5 overloads upsert_po_line and upsert_receipt_line (9         *)
(* arguments), ship-to, needed-by, freight / tax estimates, location,      *)
(* condition, acknowledged_at, and the is_active flag of a PO line, which  *)
(* the coverage view does not read.                                        *)
(*                                                                         *)
(* Two RPCs of other names stay callable next to the Phase 9 functions     *)
(* and are modelled as actions of their own: upsert_pr_line                *)
(* (unnamed/part_000, lines 369-481) and rpc_pr_approve                    *)
(* (db/migrations/0018_pr_rpc_approve_reject.sql, lines 1-36), the latter  *)
(* in two steps because it reads the PR without a row lock.  A client's    *)
(* direct statement on status_logs is an action too.                       *)
(***************************************************************************)
EXTENDS Integers, Sequences, FiniteSets, TLC

\* ------------------------------------------------------------------ bounds
MaxPRs   == 1
MaxLines == 2
MaxLog   == 6
\* Room for one purchase order more than the conversions may create.
MaxPOs   == MaxPRs + 1
\* The largest value a numbering call draws when calls interleave.
MaxSeq   == 3
\* The length of the log up to which the RPCs of purchase orders, and those
\* of receipts, are followed.
MaxPOLog    == 5
MaxRcvLog   == 7
MaxPOLines  == 2
MaxReceipts == 2
MaxRcvLines == 2

\* ------------------------------------------------------------- SQL values
\* SQL NULL of a text / uuid-of-a-user / date column.
NULL == "NULL"
\* SQL NULL of a uuid that references a row the model numbers from 1.
NoId == 0
\* A nullable numeric is <<>> (NULL) or <<v>>.
NullNum == <<>>
Num(v) == <<v>>
\* SQL NULL of a document-number column (a number is never the empty text).
NoNumber == <<>>

Coalesce(a, b) == IF a # NULL THEN a ELSE b
CoalesceNum(a, b) == IF a # NullNum THEN a[1] ELSE b
\* a IS DISTINCT FROM b: a null-safe inequality.
IsDistinctFrom(a, b) == a # b

\* now(): the transaction timestamp; every stamp taken is the same non-null value.
Now == "ts"

\* now() of a transaction that stamps a column which holds the stamp t of an
\* earlier transaction: a later time, whatever the two times are.
Later == "ts+"
NowAfter(t) == IF t = NULL THEN Now ELSE Later

\* text is a tuple of characters; digits are the characters "0".."9".
DigitChar(d) == CASE d = 0 -> "0" [] d = 1 -> "1" [] d = 2 -> "2" [] d = 3 -> "3"
                  [] d = 4 -> "4" [] d = 5 -> "5" [] d = 6 -> "6" [] d = 7 -> "7"
                  [] d = 8 -> "8" [] d = 9 -> "9"

RECURSIVE IntToText(_)
\* n::text for n >= 0
IntToText(n) == IF n < 10 THEN <<DigitChar(n)>>
                ELSE Append(IntToText(n \div 10), DigitChar(n % 10))

RECURSIVE Lpad(_, _, _)
\* lpad(s, w, fill): pads on the left up to w characters, and truncates
\* (on the right) a string longer than w.
Lpad(s, w, fill) == IF Len(s) > w THEN SubSeq(s, 1, w)
                    ELSE IF Len(s) = w THEN s
                    ELSE Lpad(<<fill>> \o s, w, fill)

RECURSIVE Btrim(_)
\* btrim(s): strips the spaces at both ends.
Btrim(s) == IF s = <<>> THEN s
            ELSE IF Head(s) = " " THEN Btrim(Tail(s))
            ELSE IF s[Len(s)] = " " THEN Btrim(SubSeq(s, 1, Len(s) - 1))
            ELSE s

\* ------------------------------------------------------------ fixed data
\* profiles: one user per role of profiles_role_check.
profiles ==
  [ u \in {"u_user", "u_pm", "u_super", "u_ops", "u_exec", "u_acct", "u_shop",
           "u_admin", "u_cmdt", "u_purch"} |->
      CASE u = "u_user"  -> "user"
        [] u = "u_pm"    -> "pm"
        [] u = "u_super" -> "super"
        [] u = "u_ops"   -> "ops"
        [] u = "u_exec"  -> "executive"
        [] u = "u_acct"  -> "accounting"
        [] u = "u_shop"  -> "shop"
        [] u = "u_admin" -> "admin"
        [] u = "u_cmdt"  -> "commandant"
        [] u = "u_purch" -> "purchasing" ]

\* user_roles: the rows of the role table has_role reads.
user_roles == { <<"u_exec", "purchasing_approver">>, <<"u_admin", "purchasing_admin">> }

has_role(p_user, p_role) == <<p_user, p_role>> \in user_roles

\* app_config row PR_APPROVAL_THRESHOLD = '1000'; amounts are in cents.
get_pr_approval_threshold == 1000 * 100

\* ---------------------------------------------------------------- inputs
\* The callers the lifecycle is driven by: two users, an id with no profile,
\* and no id.
ValidActors   == {"u_ops", "u_exec"}
InvalidActors == {"u_ghost", NULL}
Actors      == ValidActors \cup InvalidActors
Projects    == {"P1", NULL}
Dates       == {NULL, "d1"}
Priorities  == {NULL, "high"}
Notes       == {NULL}
\* '' is <<>>; a NULL description takes the same branch as a blank one.
Descriptions == {<<" ">>, <<"b">>}
Qtys        == {NullNum, Num(2)}
UnitCosts   == {NullNum, Num(500 * 100)}
Vendors     == {NULL, "V1"}
Sessions    == {"s1", "s2"}
CurrentYear == 2024

VARIABLES
  prs,                 \* purchase_requests: row id -> row
  lines,               \* purchase_request_lines: row id -> row
  pos,                 \* purchase_orders: row id -> row
  po_lines,            \* purchase_order_lines: row id -> row
  log,                 \* status_logs, in insertion order
  pr_number_counters,  \* year -> last_seq (rows that exist)
  conv,                \* session -> the conversion call it has in flight
  last,                \* the call that completed last and how it ended
  gate,                \* a call of can_approve_pr: its arguments and its result
  receipts,            \* receipts: row id -> row
  receipt_lines,       \* receipt_lines: row id -> row
  number_sequences,    \* name -> current_value (rows that exist)
  sequences,           \* po_number_seq, receipt_number_seq: the last value drawn
  numcall,             \* session -> the numbering call it has in flight
  issued,              \* the numbers the committed numbering calls returned, in commit order
  appr                 \* session -> the rpc_pr_approve call it has in flight

vars == <<prs, lines, pos, po_lines, log, pr_number_counters, conv, last, gate,
          receipts, receipt_lines, number_sequences, sequences, numcall, issued,
          appr>>
\* The tables of receiving and the sequences of the PO and receipt numbers.
receiving == <<receipts, receipt_lines, number_sequences, sequences>>
store == <<prs, lines, pos, po_lines, log, pr_number_counters, receiving>>
\* What no RPC of the lifecycles writes.
aux == <<gate, numcall, issued, appr>>

NumIdle == [phase |-> "idle", fn |-> "none", name |-> NULL, created |-> FALSE,
            old_value |-> 0, v_next |-> 0]

ApprIdle == [phase |-> "idle", pr |-> NoId, uid |-> NULL, v_status |-> NULL]

Idle == [phase |-> "idle", pr |-> NoId, uid |-> NULL, vendor |-> NULL,
         waited |-> FALSE, v_pr_status |-> NULL, v_existing_po |-> NoId]

Init ==
  /\ prs = <<>>
  /\ lines = <<>>
  /\ pos = <<>>
  /\ po_lines = <<>>
  /\ log = <<>>
  /\ pr_number_counters = <<>>
  /\ conv = [s \in Sessions |-> Idle]
  /\ last = [op |-> "none", pr |-> NoId, result |-> "ok", old_status |-> NULL,
             waited |-> FALSE]
  /\ gate = [actor |-> NULL, total |-> 0, result |-> "unset"]
  /\ receipts = <<>>
  /\ receipt_lines = <<>>
  /\ number_sequences = <<>>
  /\ sequences = [po_number_seq |-> 0, receipt_number_seq |-> 0]
  /\ numcall = [s \in Sessions |-> NumIdle]
  /\ issued = <<>>
  /\ appr = [s \in Sessions |-> ApprIdle]

\* --------------------------------------------------------------- helpers
Exists(p) == p \in DOMAIN prs

\* The row lock of SELECT ... FOR UPDATE held by a conversion or by an
\* approval in flight.
Locked(p) ==
  \E s \in Sessions : \/ conv[s].phase = "locked" /\ conv[s].pr = p
                      \/ appr[s].phase = "locked" /\ appr[s].pr = p

Done(op, p, res, old) ==
  /\ last' = [op |-> op, pr |-> p, result |-> res, old_status |-> old, waited |-> FALSE]
  /\ UNCHANGED aux

\* A failure without rollback: an audit entry written before the RAISE stays.
Fail_keeps_entry(op, p, err, old) ==
  /\ Done(op, p, err, old)
  /\ log' = IF Len(log) < MaxLog
            THEN Append(log, [entity_type |-> "purchase_request", entity_id |-> p,
                              project_id |-> NULL, from_status |-> NULL,
                              to_status |-> NULL, message |-> err])
            ELSE log
  /\ UNCHANGED <<prs, lines, pos, po_lines, pr_number_counters, receiving, conv>>

\* RAISE EXCEPTION: the transaction rolls back, nothing it wrote survives.
Fail(op, p, err, old) ==
  /\ Done(op, p, err, old)
  /\ UNCHANGED <<store, conv>>

\* A return that wrote nothing.
ReturnUnchanged(op, p, old) ==
  /\ Done(op, p, "ok", old)
  /\ UNCHANGED <<store, conv>>

\* A check that refuses a missing id only, not one without a profile.
assert_actor_exists_null_only(p_actor_id) ==
  IF p_actor_id = NULL THEN "actor_required" ELSE "ok"

assert_actor_exists(p_actor_id) ==
  IF p_actor_id = NULL THEN "actor_required"
  ELSE IF p_actor_id \notin DOMAIN profiles THEN "actor_missing"
  ELSE "ok"

insert_status_log(p_entity_type, p_entity_id, p_project_id, p_from_status, p_to_status, p_message) ==
  [entity_type |-> p_entity_type, entity_id |-> p_entity_id,
   project_id |-> p_project_id, from_status |-> p_from_status,
   to_status |-> p_to_status, message |-> p_message]


\* --------------------------------------------------- numbering and totals
\* next_pr_number(): the year row is created on first use, then incremented
\* in one UPDATE ... RETURNING; the result is 'PR-' || year || '-' || lpad(seq, 4, '0').
\* The same with v_year = extract(year from now()) as an argument.
\* A counter that goes on from the greatest last_seq of the years before.
next_pr_number_seq_at_carried(counters, v_year) ==
  IF v_year \in DOMAIN counters THEN counters[v_year] + 1
  ELSE IF counters = <<>> THEN 1
  ELSE (CHOOSE m \in {counters[y] : y \in DOMAIN counters} :
          \A y \in DOMAIN counters : counters[y] <= m) + 1

next_pr_number_seq_at(counters, v_year) ==
  IF v_year \in DOMAIN counters THEN counters[v_year] + 1 ELSE 1

next_pr_number_counters_at(counters, v_year) ==
  [y \in DOMAIN counters \cup {v_year} |->
     IF y = v_year THEN next_pr_number_seq_at(counters, v_year) ELSE counters[y]]

next_pr_number_at(counters, v_year) ==
  <<"P", "R", "-">> \o IntToText(v_year) \o <<"-">>
     \o Lpad(IntToText(next_pr_number_seq_at(counters, v_year)), 4, "0")

next_pr_number_seq(counters) == next_pr_number_seq_at(counters, CurrentYear)

next_pr_number_counters(counters) == next_pr_number_counters_at(counters, CurrentYear)

next_pr_number(counters) == next_pr_number_at(counters, CurrentYear)

\* est_ext_cost of a line: qty * est_unit_cost, NULL when the unit cost is NULL.
est_ext_cost(l) ==
  IF l.est_unit_cost = NullNum THEN NullNum ELSE Num(l.qty * l.est_unit_cost[1])

RECURSIVE SumActive(_, _, _)
SumActive(ls, p, n) ==
  IF n = 0 THEN 0
  ELSE SumActive(ls, p, n - 1)
       + (IF ls[n].purchase_request_id = p /\ ls[n].is_active
          THEN CoalesceNum(est_ext_cost(ls[n]), 0) ELSE 0)

\* pr_est_total(p_pr_id): coalesce(sum(coalesce(est_ext_cost, 0)), 0) over the active lines.
pr_est_total(p_pr_id) == SumActive(lines, p_pr_id, Len(lines))

RoleOf(p_actor_id) ==
  IF p_actor_id \in DOMAIN profiles THEN profiles[p_actor_id] ELSE NULL

\* A gate whose boundary is exclusive: a total equal to the threshold still
\* counts as below it.
can_approve_pr_exclusive(p_actor_id, p_pr_total) ==
  LET v_role == RoleOf(p_actor_id)
  IN  IF v_role = NULL THEN FALSE
      ELSE IF p_pr_total > get_pr_approval_threshold
           THEN v_role \in {"executive", "accounting", "admin", "commandant"}
           ELSE v_role \in {"ops", "executive", "accounting", "admin", "commandant"}

\* can_approve_pr(p_actor_id, p_pr_total)
can_approve_pr(p_actor_id, p_pr_total) ==
  LET v_role == RoleOf(p_actor_id)
      v_threshold == get_pr_approval_threshold
  IN  IF v_role = NULL THEN FALSE
      ELSE IF p_pr_total >= v_threshold
           THEN v_role \in {"executive", "accounting", "admin", "commandant"}
           ELSE v_role \in {"ops", "executive", "accounting", "admin", "commandant"}

\* ------------------------------------------------------------ PR lifecycle
\* The UPDATE of approve_purchase_request.
ApprovedRow(row, p_actor_id) ==
  [row EXCEPT !.status = "approved", !.approved_by = p_actor_id, !.approved_at = Now]

\* A rejection that leaves the approver fields as they are.
RejectedRow_keeps_approver(row) == [row EXCEPT !.status = "rejected"]

\* The UPDATE of reject_purchase_request.
RejectedRow(row) ==
  [row EXCEPT !.status = "rejected", !.approved_by = NULL, !.approved_at = NULL]

\* The UPDATE that resets the approval of an edited PR.
ResetRow(row) ==
  [row EXCEPT !.status = "submitted", !.approved_by = NULL, !.approved_at = NULL]

\* A reset on every supplied field, whether or not it differs.
HeaderReset_any_supplied(v_old, p_needed_by_date, p_priority, p_notes) ==
  p_needed_by_date # NULL \/ p_priority # NULL \/ p_notes # NULL

\* v_reset of update_purchase_request_header: a supplied field differs from
\* the stored one.
HeaderReset(v_old, p_needed_by_date, p_priority, p_notes) ==
  \/ (p_needed_by_date # NULL /\ IsDistinctFrom(p_needed_by_date, v_old.needed_by_date))
  \/ (p_priority # NULL /\ IsDistinctFrom(p_priority, v_old.priority))
  \/ (p_notes # NULL /\ IsDistinctFrom(p_notes, v_old.notes))

\* A line edit that never resets the approval.
LineEditResets_never(v_pr) == FALSE

\* "if v_pr.status = 'approved'" of upsert_purchase_request_line.
LineEditResets(v_pr) == v_pr.status = "approved"

\* The statuses in which the header and the lines of a PR are edited.
EditableStatuses == {"draft", "submitted", "approved"}

\* An approval that also takes a draft.
ApprovableFrom_with_draft == {"submitted", "draft"}

\* The statuses approve_purchase_request approves from.
ApprovableFrom == {"submitted"}

\* No gate: every existing actor passes.
ApproverGate_open(p_actor_id, v_total) == TRUE

\* The gate of approve_purchase_request and reject_purchase_request:
\* "if not can_approve_pr(p_actor_id, v_total) then raise".
ApproverGate(p_actor_id, v_total) == can_approve_pr(p_actor_id, v_total)

\* A second submit that raises.
ResubmitReturns_raises(p_pr_id, v_old) == Fail("submit", p_pr_id, "bad_status", v_old.status)

\* submit_purchase_request on a PR that is already submitted: returns v_old.
ResubmitReturns(p_pr_id, v_old) == ReturnUnchanged("submit", p_pr_id, v_old.status)

create_purchase_request(p_project_id, p_actor_id, p_needed_by_date, p_priority, p_notes) ==
  LET err == assert_actor_exists(p_actor_id)
      id  == Len(prs) + 1
      row == [project_id |-> p_project_id,
              pr_number |-> next_pr_number(pr_number_counters),
              status |-> "draft",
              needed_by_date |-> p_needed_by_date,
              priority |-> p_priority,
              requested_by |-> p_actor_id,
              notes |-> p_notes,
              approved_by |-> NULL,
              approved_at |-> NULL,
              po_id |-> NoId,
              converted_by |-> NULL]
  IN  IF err # "ok" THEN Fail("create", NoId, err, NULL)
      ELSE IF p_project_id = NULL
      THEN Fail("create", NoId, "project_required", NULL)
      ELSE /\ Len(prs) < MaxPRs
           /\ Len(log) < MaxLog
           /\ pr_number_counters' = next_pr_number_counters(pr_number_counters)
           /\ prs' = Append(prs, row)
           /\ log' = Append(log, insert_status_log("purchase_request", id, p_project_id,
                                                   NULL, "draft", "PR created"))
           /\ Done("create", id, "ok", NULL)
           /\ UNCHANGED <<lines, pos, po_lines, conv, receiving>>

update_purchase_request_header(p_pr_id, p_actor_id, p_needed_by_date, p_priority, p_notes) ==
  LET err == assert_actor_exists(p_actor_id) IN
  IF err # "ok" THEN Fail("update_header", p_pr_id, err, NULL)
  ELSE IF ~Exists(p_pr_id) THEN Fail("update_header", p_pr_id, "not_found", NULL)
  ELSE
    LET v_old == prs[p_pr_id]
        v_reset == HeaderReset(v_old, p_needed_by_date, p_priority, p_notes)
        upd == [v_old EXCEPT !.needed_by_date = Coalesce(p_needed_by_date, @),
                             !.priority = Coalesce(p_priority, @),
                             !.notes = Coalesce(p_notes, @)]
        doReset == v_old.status = "approved" /\ v_reset
        v_new == IF doReset THEN ResetRow(upd) ELSE upd
        resetLog == IF doReset
                    THEN <<insert_status_log("purchase_request", p_pr_id, v_old.project_id,
                             "approved", "submitted",
                             "Approval reset due to PR header change")>>
                    ELSE <<>>
    IN  /\ ~Locked(p_pr_id)
        /\ IF v_old.status \notin EditableStatuses
           THEN Fail("update_header", p_pr_id, "bad_status", v_old.status)
           ELSE /\ prs' = [prs EXCEPT ![p_pr_id] = v_new]
                /\ log' = log \o resetLog
                            \o <<insert_status_log("purchase_request", p_pr_id,
                                   v_old.project_id, NULL, NULL, "PR header updated")>>
                /\ Len(log') <= MaxLog
                /\ Done("update_header", p_pr_id, "ok", v_old.status)
                /\ UNCHANGED <<lines, pos, po_lines, pr_number_counters, conv, receiving>>

upsert_purchase_request_line(p_purchase_request_id, p_actor_id, p_id, p_description, p_qty, p_est_unit_cost, p_is_active) ==
  LET err == assert_actor_exists(p_actor_id)
      p   == p_purchase_request_id
  IN
  IF err # "ok" THEN Fail("upsert_line", p, err, NULL)
  ELSE IF ~Exists(p) THEN Fail("upsert_line", p, "not_found", NULL)
  ELSE
    LET v_pr == prs[p]
        v_exists == p_id # NoId /\ p_id \in DOMAIN lines
                    /\ lines[p_id].purchase_request_id = p
        v_id == IF v_exists THEN p_id ELSE Len(lines) + 1
        v_line == [purchase_request_id |-> p,
                   project_id |-> v_pr.project_id,
                   description |-> p_description,
                   qty |-> p_qty[1],
                   est_unit_cost |-> p_est_unit_cost,
                   is_active |-> p_is_active]
        lineLog == insert_status_log("purchase_request_line", v_id, v_pr.project_id,
                     NULL, NULL,
                     IF v_exists THEN "PR line updated" ELSE "PR line created")
        resetLog == IF LineEditResets(v_pr)
                    THEN <<insert_status_log("purchase_request", p, v_pr.project_id,
                             "approved", "submitted",
                             "Approval reset due to PR line change")>>
                    ELSE <<>>
    IN  /\ ~Locked(p)
        /\ IF v_pr.status \notin EditableStatuses
           THEN Fail("upsert_line", p, "bad_status", v_pr.status)
           ELSE IF Btrim(p_description) = <<>>
           THEN Fail("upsert_line", p, "description_required", v_pr.status)
           ELSE IF p_qty = NullNum
           THEN Fail("upsert_line", p, "qty_required", v_pr.status)
           ELSE /\ v_exists \/ Len(lines) < MaxLines
                /\ lines' = IF v_exists
                            THEN [lines EXCEPT ![p_id] = v_line]
                            ELSE Append(lines, v_line)
                /\ prs' = IF LineEditResets(v_pr)
                          THEN [prs EXCEPT ![p] = ResetRow(@)]
                          ELSE prs
                /\ log' = Append(log, lineLog) \o resetLog
                /\ Len(log') <= MaxLog
                /\ Done("upsert_line", p, "ok", v_pr.status)
                /\ UNCHANGED <<pos, po_lines, pr_number_counters, conv, receiving>>

submit_purchase_request(p_pr_id, p_actor_id) ==
  LET err == assert_actor_exists(p_actor_id) IN
  IF err # "ok" THEN Fail("submit", p_pr_id, err, NULL)
  ELSE IF ~Exists(p_pr_id) THEN Fail("submit", p_pr_id, "not_found", NULL)
  ELSE
    LET v_old == prs[p_pr_id] IN
    /\ ~Locked(p_pr_id)
    /\ IF v_old.status = "draft"
       THEN /\ prs' = [prs EXCEPT ![p_pr_id] = [@ EXCEPT !.status = "submitted"]]
            /\ log' = Append(log, insert_status_log("purchase_request", p_pr_id,
                                    v_old.project_id, "draft", "submitted",
                                    "PR submitted"))
            /\ Len(log') <= MaxLog
            /\ Done("submit", p_pr_id, "ok", v_old.status)
            /\ UNCHANGED <<lines, pos, po_lines, pr_number_counters, conv, receiving>>
       ELSE IF v_old.status = "submitted"
       THEN ResubmitReturns(p_pr_id, v_old)
       ELSE Fail("submit", p_pr_id, "bad_status", v_old.status)

approve_purchase_request(p_pr_id, p_actor_id) ==
  LET err == assert_actor_exists(p_actor_id) IN
  IF err # "ok" THEN Fail("approve", p_pr_id, err, NULL)
  ELSE IF ~Exists(p_pr_id) THEN Fail("approve", p_pr_id, "not_found", NULL)
  ELSE
    LET v_old == prs[p_pr_id]
        v_total == pr_est_total(p_pr_id)
    IN
    /\ ~Locked(p_pr_id)
    /\ IF v_old.status \notin ApprovableFrom
       THEN Fail("approve", p_pr_id, "bad_status", v_old.status)
       ELSE IF ~ApproverGate(p_actor_id, v_total)
       THEN Fail("approve", p_pr_id, "not_authorized", v_old.status)
       ELSE /\ prs' = [prs EXCEPT ![p_pr_id] = ApprovedRow(@, p_actor_id)]
            /\ log' = Append(log, insert_status_log("purchase_request", p_pr_id,
                                    v_old.project_id, v_old.status, "approved",
                                    "PR approved"))
            /\ Len(log') <= MaxLog
            /\ Done("approve", p_pr_id, "ok", v_old.status)
            /\ UNCHANGED <<lines, pos, po_lines, pr_number_counters, conv, receiving>>

reject_purchase_request(p_pr_id, p_actor_id) ==
  LET err == assert_actor_exists(p_actor_id) IN
  IF err # "ok" THEN Fail("reject", p_pr_id, err, NULL)
  ELSE IF ~Exists(p_pr_id) THEN Fail("reject", p_pr_id, "not_found", NULL)
  ELSE
    LET v_old == prs[p_pr_id]
        v_total == pr_est_total(p_pr_id)
    IN
    /\ ~Locked(p_pr_id)
    /\ IF v_old.status \notin {"submitted", "approved"}
       THEN Fail("reject", p_pr_id, "bad_status", v_old.status)
       ELSE IF ~ApproverGate(p_actor_id, v_total)
       THEN Fail("reject", p_pr_id, "not_authorized", v_old.status)
       ELSE /\ prs' = [prs EXCEPT ![p_pr_id] = RejectedRow(@)]
            /\ log' = Append(log, insert_status_log("purchase_request", p_pr_id,
                                    v_old.project_id, v_old.status, "rejected",
                                    "PR rejected"))
            /\ Len(log') <= MaxLog
            /\ Done("reject", p_pr_id, "ok", v_old.status)
            /\ UNCHANGED <<lines, pos, po_lines, pr_number_counters, conv, receiving>>


\* ------------------------------------------------------- PR -> PO conversion
\* The lines of PR p in id order (the rows of
\* "select ... from purchase_request_lines l where l.pr_id = p_pr_id").
RECURSIVE LinesOf(_, _, _)
LinesOf(ls, p, n) ==
  IF n = 0 THEN <<>>
  ELSE LET rest == LinesOf(ls, p, n - 1)
       IN  IF ls[n].purchase_request_id = p THEN Append(rest, n) ELSE rest

\* "select status, po_id ... for update" waits while another transaction
\* holds the row lock.
RowLockFree(p) == ~Locked(p)

\* The unique index purchase_orders_source_pr_id_uq admits a PO of source p.
purchase_orders_source_pr_id_uq(p) ==
  \A i \in DOMAIN pos : pos[i].source_pr_id # p

\* _require_auth and the role check of rpc_pr_convert_to_po.
ConvAuth(v_uid) ==
  IF v_uid = NULL THEN "not_authenticated"
  ELSE IF ~(has_role(v_uid, "purchasing_admin") \/ has_role(v_uid, "purchasing_approver"))
  THEN "not_allowed"
  ELSE "ok"

\* A conversion that looks neither at the link of the PR nor at the index.
ConvChecks_no_link_check(p, p_vendor_id, v_pr_status, v_existing_po) ==
  IF v_pr_status # "approved" THEN "bad_status"
  ELSE IF p_vendor_id = NULL THEN "vendor_required"
  ELSE IF Len(LinesOf(lines, p, Len(lines))) < 1 THEN "no_lines"
  ELSE "ok"

\* The checks rpc_pr_convert_to_po makes on the row it read under the lock,
\* and the unique index at the insert of the PO header.
ConvChecks(p, p_vendor_id, v_pr_status, v_existing_po) ==
  IF v_pr_status # "approved" THEN "bad_status"
  ELSE IF v_existing_po # NoId THEN "already_converted"
  ELSE IF p_vendor_id = NULL THEN "vendor_required"
  ELSE IF Len(LinesOf(lines, p, Len(lines))) < 1 THEN "no_lines"
  ELSE IF ~purchase_orders_source_pr_id_uq(p) THEN "unique_violation"
  ELSE "ok"

\* A conversion that copies the active lines only.
ConvWrites_active_only(p, p_vendor_id, v_uid) ==
  LET v_po_id == Len(pos) + 1
      src == SelectSeq(LinesOf(lines, p, Len(lines)), LAMBDA i : lines[i].is_active)
  IN  /\ Len(pos) < MaxPOs
      /\ pos' = Append(pos, [project_id |-> NULL, vendor_id |-> p_vendor_id,
                             po_number |-> NoNumber, status |-> "draft",
                             source_pr_id |-> p, created_by |-> v_uid,
                             updated_by |-> NULL, issued_at |-> NULL])
      /\ po_lines' = po_lines \o
                       [i \in 1..Len(src) |->
                          [po_id |-> v_po_id, project_id |-> NULL,
                           item_name |-> lines[src[i]].description,
                           qty |-> lines[src[i]].qty,
                           unit_cost |-> lines[src[i]].est_unit_cost,
                           source_pr_line_id |-> src[i]]]
      /\ prs' = [prs EXCEPT ![p] = [@ EXCEPT !.po_id = v_po_id, !.converted_by = v_uid]]
      /\ UNCHANGED <<lines, log, pr_number_counters, receiving>>

\* The writes of rpc_pr_convert_to_po: the PO header, one PO line per PR
\* line, and the link from the PR.  The INSERT of the header names neither
\* po_number nor project_id, and the INSERT of the lines no project_id:
\* the row is left without them.
ConvWrites(p, p_vendor_id, v_uid) ==
  LET v_po_id == Len(pos) + 1
      src == LinesOf(lines, p, Len(lines))
  IN  /\ Len(pos) < MaxPOs
      /\ pos' = Append(pos, [project_id |-> NULL, vendor_id |-> p_vendor_id,
                             po_number |-> NoNumber, status |-> "draft",
                             source_pr_id |-> p, created_by |-> v_uid,
                             updated_by |-> NULL, issued_at |-> NULL])
      /\ po_lines' = po_lines \o
                       [i \in 1..Len(src) |->
                          [po_id |-> v_po_id, project_id |-> NULL,
                           item_name |-> lines[src[i]].description,
                           qty |-> lines[src[i]].qty,
                           unit_cost |-> lines[src[i]].est_unit_cost,
                           source_pr_line_id |-> src[i]]]
      /\ prs' = [prs EXCEPT ![p] = [@ EXCEPT !.po_id = v_po_id, !.converted_by = v_uid]]
      /\ UNCHANGED <<lines, log, pr_number_counters, receiving>>

\* rpc_pr_convert_to_po as one transaction that meets no other conversion.
rpc_pr_convert_to_po(p_pr_id, p_vendor_id, v_uid) ==
  IF ConvAuth(v_uid) # "ok" THEN Fail("convert", p_pr_id, ConvAuth(v_uid), NULL)
  ELSE IF ~Exists(p_pr_id) THEN Fail("convert", p_pr_id, "not_found", NULL)
  ELSE LET v_pr_status == prs[p_pr_id].status
           res == ConvChecks(p_pr_id, p_vendor_id, v_pr_status, prs[p_pr_id].po_id)
       IN  /\ RowLockFree(p_pr_id)
           /\ IF res # "ok" THEN Fail("convert", p_pr_id, res, v_pr_status)
              ELSE /\ ConvWrites(p_pr_id, p_vendor_id, v_uid)
                   /\ Done("convert", p_pr_id, "ok", v_pr_status)
                   /\ UNCHANGED conv

\* The same RPC in the steps in which two calls interleave.
ConvDone(s, res, old) ==
  /\ last' = [op |-> "convert", pr |-> conv[s].pr, result |-> res,
              old_status |-> old, waited |-> conv[s].waited]
  /\ conv' = [conv EXCEPT ![s] = Idle]
  /\ UNCHANGED aux

\* Step 1: the call, up to the SELECT ... FOR UPDATE.
rpc_pr_convert_to_po_call(s, p_pr_id, p_vendor_id, v_uid) ==
  /\ conv[s].phase = "idle"
  /\ IF ConvAuth(v_uid) # "ok" THEN Fail("convert", p_pr_id, ConvAuth(v_uid), NULL)
     ELSE /\ conv' = [conv EXCEPT ![s] =
                        [phase |-> "waiting", pr |-> p_pr_id, uid |-> v_uid,
                         vendor |-> p_vendor_id, waited |-> Locked(p_pr_id),
                         v_pr_status |-> NULL, v_existing_po |-> NoId]]
          /\ UNCHANGED <<store, last, aux>>

\* Step 2: the SELECT status, po_id ... FOR UPDATE takes the row lock and reads.
rpc_pr_convert_to_po_lock(s) ==
  /\ conv[s].phase = "waiting"
  /\ IF ~Exists(conv[s].pr)
     THEN ConvDone(s, "not_found", NULL) /\ UNCHANGED store
     ELSE /\ RowLockFree(conv[s].pr)
          /\ conv' = [conv EXCEPT ![s] =
                        [@ EXCEPT !.phase = "locked",
                                  !.v_pr_status = prs[conv[s].pr].status,
                                  !.v_existing_po = prs[conv[s].pr].po_id]]
          /\ UNCHANGED <<store, last, aux>>

\* Step 3: the checks, the writes, and the commit that releases the lock.
rpc_pr_convert_to_po_finish(s) ==
  LET c == conv[s]
      res == ConvChecks(c.pr, c.vendor, c.v_pr_status, c.v_existing_po)
  IN  /\ c.phase = "locked"
      /\ IF res # "ok" THEN ConvDone(s, res, c.v_pr_status) /\ UNCHANGED store
         ELSE /\ ConvWrites(c.pr, c.vendor, c.uid)
              /\ ConvDone(s, "ok", c.v_pr_status)

\* ------------------------------------------------------------ specification
PRIds == 1..MaxPRs
LineIds == 0..MaxLines

\* The arguments of the well-formed calls: an existing caller, a project, a
\* non-blank description, a quantity, a vendor.  The role of the caller is
\* read by approve and reject (and by the conversion, from user_roles) only.
CreateArgs == {"P1"} \X {"u_ops"}
HeaderArgs == {"u_ops"} \X Dates \X Priorities \X Notes
LineArgs   == {"u_ops"} \X LineIds \X {<<"b">>} \X (Qtys \ {NullNum}) \X UnitCosts \X BOOLEAN
SubmitArgs == {"u_ops"}
ApproveArgs == ValidActors
ConvertArgs == {"V1"} \X {"u_exec", "u_ops"}

\* The PR lifecycle, one transaction at a time.
Next ==
  \/ \E x \in CreateArgs : create_purchase_request(x[1], x[2], NULL, NULL, NULL)
  \/ \E p \in PRIds, x \in HeaderArgs :
       update_purchase_request_header(p, x[1], x[2], x[3], x[4])
  \/ \E p \in PRIds, x \in LineArgs :
       upsert_purchase_request_line(p, x[1], x[2], x[3], x[4], x[5], x[6])
  \/ \E p \in PRIds, a \in SubmitArgs : submit_purchase_request(p, a)
  \/ \E p \in PRIds, a \in ApproveArgs : approve_purchase_request(p, a)
  \/ \E p \in PRIds, a \in ApproveArgs : reject_purchase_request(p, a)
  \/ \E p \in PRIds, x \in ConvertArgs : rpc_pr_convert_to_po(p, x[1], x[2])

Spec == Init /\ [][Next]_vars

\* ------------------------------------------- specification: the approval gate
\* can_approve_pr is a pure function of the actor's role and the total: it is
\* applied once to every actor and to totals on both sides of the threshold.
GateActors == DOMAIN profiles \cup InvalidActors
GateTotals == {0, 999 * 100 + 99, 1000 * 100, 1000 * 100 + 1, 2500 * 100}

InitGate ==
  /\ prs = <<>>
  /\ lines = <<>>
  /\ pos = <<>>
  /\ po_lines = <<>>
  /\ log = <<>>
  /\ pr_number_counters = <<>>
  /\ conv = [s \in Sessions |-> Idle]
  /\ last = [op |-> "none", pr |-> NoId, result |-> "ok", old_status |-> NULL,
             waited |-> FALSE]
  /\ gate \in [actor : GateActors, total : GateTotals, result : {"unset"}]
  /\ receipts = <<>>
  /\ receipt_lines = <<>>
  /\ number_sequences = <<>>
  /\ sequences = [po_number_seq |-> 0, receipt_number_seq |-> 0]
  /\ numcall = [s \in Sessions |-> NumIdle]
  /\ issued = <<>>
  /\ appr = [s \in Sessions |-> ApprIdle]

can_approve_pr_call ==
  /\ gate.result = "unset"
  /\ gate' = [gate EXCEPT !.result =
                IF can_approve_pr(gate.actor, gate.total) THEN "true" ELSE "false"]
  /\ UNCHANGED <<store, conv, last, numcall, issued, appr>>

NextGate == can_approve_pr_call

SpecGate == InitGate /\ [][NextGate]_vars

\* ------------------------------- specification: conversions that interleave
\* Two sessions convert while the PR is created, given lines, submitted,
\* approved, edited and rejected.
ConcLineArgs == {"u_ops"} \X LineIds \X {<<"b">>} \X (Qtys \ {NullNum})
                  \X {Num(500 * 100)} \X {TRUE}
ConcHeaderArgs == {"u_ops"} \X {"d1"} \X {NULL} \X Notes

NextConc ==
  \/ \E x \in CreateArgs : create_purchase_request(x[1], x[2], NULL, NULL, NULL)
  \/ \E p \in PRIds, x \in ConcHeaderArgs :
       update_purchase_request_header(p, x[1], x[2], x[3], x[4])
  \/ \E p \in PRIds, x \in ConcLineArgs :
       upsert_purchase_request_line(p, x[1], x[2], x[3], x[4], x[5], x[6])
  \/ \E p \in PRIds, a \in SubmitArgs : submit_purchase_request(p, a)
  \/ \E p \in PRIds : approve_purchase_request(p, "u_exec")
  \/ \E p \in PRIds : reject_purchase_request(p, "u_exec")
  \/ \E s \in Sessions, p \in PRIds, x \in ConvertArgs :
       rpc_pr_convert_to_po_call(s, p, x[1], x[2])
  \/ \E s \in Sessions : rpc_pr_convert_to_po_lock(s)
  \/ \E s \in Sessions : rpc_pr_convert_to_po_finish(s)

SpecConc == Init /\ [][NextConc]_vars

\* ------------------------------------ specification: calls that are refused
\* The same RPCs called with what they must refuse: no actor, an actor with
\* no profile, no project, an id that names no PR, a blank description, no
\* quantity, no vendor, no session user.
AnyPRIds == 1..(MaxPRs + 1)
Callers == Actors \cup {NULL}

NextInputs ==
  \/ \E pj \in Projects, a \in Actors : create_purchase_request(pj, a, NULL, NULL, NULL)
  \/ \E p \in AnyPRIds, a \in Actors :
       update_purchase_request_header(p, a, "d1", NULL, NULL)
  \/ \E p \in AnyPRIds, a \in Actors, d \in Descriptions, q \in Qtys :
       upsert_purchase_request_line(p, a, NoId, d, q, Num(500 * 100), TRUE)
  \/ \E p \in AnyPRIds, a \in Actors : submit_purchase_request(p, a)
  \/ \E p \in AnyPRIds, a \in Actors : approve_purchase_request(p, a)
  \/ \E p \in AnyPRIds, a \in Actors : reject_purchase_request(p, a)
  \/ \E p \in AnyPRIds, v \in Vendors, u \in Callers : rpc_pr_convert_to_po(p, v, u)

SpecInputs == Init /\ [][NextInputs]_vars

\* ------------------------------------- specification: numbering calls
\* next_number(p_name) and next_pr_number() are two statements inside the
\* caller's transaction: INSERT ... ON CONFLICT DO NOTHING, then
\* UPDATE ... RETURNING.  The UPDATE takes the row lock and keeps it until
\* the transaction commits or rolls back; an INSERT that meets the
\* uncommitted row of another transaction waits for it.  The table holds the
\* newest row version; the transaction that wrote it keeps what it needs to
\* undo it.
\* 'po' is the name create_purchase_order draws from.
SeqNames == {"po"}
NumFns == {"next_number", "next_pr_number"}

NumTable(fn) == IF fn = "next_pr_number" THEN pr_number_counters ELSE number_sequences
\* The key of the row: the name, or the year of now().
NumKey(fn, p_name) == IF fn = "next_pr_number" THEN CurrentYear ELSE p_name
\* The category the numbers of a call belong to.
NumCategory(fn, p_name) == IF fn = "next_pr_number" THEN "pr" ELSE p_name

SetNumTable(fn, t) ==
  IF fn = "next_pr_number"
  THEN pr_number_counters' = t /\ UNCHANGED number_sequences
  ELSE number_sequences' = t /\ UNCHANGED pr_number_counters

\* insert into ...(key, 0) on conflict do nothing
SeqInsert(t, k) ==
  IF k \in DOMAIN t THEN t
  ELSE [x \in DOMAIN t \cup {k} |-> IF x = k THEN 0 ELSE t[x]]
\* update ... set value = value + 1 where key = k
SeqBump(t, k) == [t EXCEPT ![k] = @ + 1]
\* The undo of the insert, and of the update.
SeqDrop(t, k) == [x \in DOMAIN t \ {k} |-> t[x]]
SeqRestore(t, k, v) == [t EXCEPT ![k] = v]

\* Session s holds the lock of the row of category c: it inserted or updated
\* the row and has not ended its transaction.
NumHolds(s, c) ==
  /\ NumCategory(numcall[s].fn, numcall[s].name) = c
  /\ \/ numcall[s].phase = "updated"
     \/ numcall[s].phase = "inserted" /\ numcall[s].created

\* The UPDATE of session s waits while another transaction holds the row.
NumRowFree_nowait(s, c) == TRUE

NumRowFree(s, c) == \A t \in Sessions \ {s} : ~NumHolds(t, c)

NumFrame == UNCHANGED <<prs, lines, pos, po_lines, log, conv, last, gate,
                        receipts, receipt_lines, sequences, appr>>

\* Statement 1 of next_number / next_pr_number.
next_number_insert(s, fn, p_name) ==
  LET t == NumTable(fn)
      k == NumKey(fn, p_name)
      c == NumCategory(fn, p_name)
  IN  /\ numcall[s].phase = "idle"
      /\ \A u \in Sessions \ {s} : ~(NumHolds(u, c) /\ numcall[u].created)
      /\ SetNumTable(fn, SeqInsert(t, k))
      /\ numcall' = [numcall EXCEPT ![s] =
                       [phase |-> "inserted", fn |-> fn,
                        name |-> IF fn = "next_pr_number" THEN NULL ELSE p_name,
                        created |-> k \notin DOMAIN t, old_value |-> 0, v_next |-> 0]]
      /\ UNCHANGED issued
      /\ NumFrame

\* Statement 2: the UPDATE ... RETURNING.
next_number_update(s) ==
  LET c == numcall[s]
      t == NumTable(c.fn)
      k == NumKey(c.fn, c.name)
  IN  /\ c.phase = "inserted"
      /\ NumRowFree(s, NumCategory(c.fn, c.name))
      /\ t[k] < MaxSeq
      /\ SetNumTable(c.fn, SeqBump(t, k))
      /\ numcall' = [numcall EXCEPT ![s] =
                       [c EXCEPT !.phase = "updated", !.old_value = t[k],
                                 !.v_next = t[k] + 1]]
      /\ UNCHANGED issued
      /\ NumFrame

\* The caller's transaction commits: the number it was given is in use.
next_number_commit(s) ==
  LET c == numcall[s] IN
  /\ c.phase = "updated"
  /\ issued' = Append(issued, [category |-> NumCategory(c.fn, c.name), value |-> c.v_next])
  /\ numcall' = [numcall EXCEPT ![s] = NumIdle]
  /\ UNCHANGED <<pr_number_counters, number_sequences>>
  /\ NumFrame

\* The caller's transaction rolls back: its insert and its update are undone.
next_number_rollback(s) ==
  LET c == numcall[s]
      t == NumTable(c.fn)
      k == NumKey(c.fn, c.name)
  IN  /\ c.phase \in {"inserted", "updated"}
      /\ SetNumTable(c.fn, IF c.created THEN SeqDrop(t, k)
                           ELSE IF c.phase = "updated" THEN SeqRestore(t, k, c.old_value)
                           ELSE t)
      /\ numcall' = [numcall EXCEPT ![s] = NumIdle]
      /\ UNCHANGED issued
      /\ NumFrame

NextNum ==
  \/ \E s \in Sessions, n \in SeqNames : next_number_insert(s, "next_number", n)
  \/ \E s \in Sessions : next_number_insert(s, "next_pr_number", NULL)
  \/ \E s \in Sessions : next_number_update(s)
  \/ \E s \in Sessions : next_number_commit(s)
  \/ \E s \in Sessions : next_number_rollback(s)

SpecNum == Init /\ [][NextNum]_vars

\* ---------------------------------------------------------- purchase orders
\* The RPCs of purchase orders that exist once every migration has run:
\* create_purchase_order of Phase 5 (13 arguments) and of Phase 7 (11
\* arguments) are two overloads; set_po_status (Phase 5) and
\* issue_purchase_order, upsert_purchase_order_line (Phase 7) have no other
\* version.  The Phase 7 RPCs read the role of the session user (auth.uid()),
\* which is an input next to p_actor_id.

\* The rows of projects, and of vendors with is_active = true.
projects == {"P1", "P2"}
active_vendors == {"V1"}

\* The values of the enum po_status.
po_status == {"draft", "issued", "acknowledged", "partially_received", "received",
              "closed", "cancelled"}

\* current_user_role(): the role of the profile of auth.uid(), NULL without one.
current_user_role(v_uid) == IF v_uid \in DOMAIN profiles THEN profiles[v_uid] ELSE NULL

\* role_in(p_roles): coalesce(current_user_role() = any(p_roles), false)
role_in(v_uid, p_roles) == current_user_role(v_uid) \in p_roles

can_issue_po(v_uid) ==
  current_user_role(v_uid) \in {"purchasing", "ops", "accounting", "executive",
                                "admin", "commandant"}

can_receive(v_uid) ==
  current_user_role(v_uid) \in {"shop", "super", "ops", "admin", "commandant"}

\* to_char(now(), 'YYYYMMDD')
Today == <<"2", "0", "2", "4", "0", "1", "0", "1">>

\* format_doc_number(p_prefix, p_seq): p_prefix || '-' || lpad(p_seq::text, 6, '0')
format_doc_number(p_prefix, p_seq) == p_prefix \o <<"-">> \o Lpad(IntToText(p_seq), 6, "0")

\* prefix || '-' || to_char(now(), 'YYYYMMDD') || '-' || lpad(nextval(seq)::text, 5, '0')
dated_doc_number(p_prefix, v_nextval) ==
  p_prefix \o <<"-">> \o Today \o <<"-">> \o Lpad(IntToText(v_nextval), 5, "0")

\* next_number(p_name) inside a transaction that meets no other one: the row
\* is created on first use, then incremented.
next_number(p_name) == SeqBump(SeqInsert(number_sequences, p_name), p_name)

POExists(p) == p \in DOMAIN pos

\* What the RPCs of purchase orders leave alone.
POFrame == UNCHANGED <<prs, lines, pr_number_counters, conv, receipts, receipt_lines>>

\* create_purchase_order, Phase 5: the number is drawn from number_sequences.
create_purchase_order_phase5(p_project_id, p_vendor_id, p_actor_id) ==
  LET err == assert_actor_exists(p_actor_id)
      id == Len(pos) + 1
      seqs == next_number("po")
      row == [project_id |-> p_project_id, vendor_id |-> p_vendor_id,
              po_number |-> format_doc_number(<<"P", "O">>, seqs["po"]),
              status |-> "draft", source_pr_id |-> NoId, created_by |-> p_actor_id,
              updated_by |-> p_actor_id, issued_at |-> NULL]
  IN  IF err # "ok" THEN Fail("create_po", NoId, err, NULL)
      ELSE IF p_project_id \notin projects
      THEN Fail("create_po", NoId, "project_not_found", NULL)
      ELSE IF p_vendor_id \notin active_vendors
      THEN Fail("create_po", NoId, "vendor_not_found", NULL)
      ELSE /\ Len(pos) < MaxPOs
           /\ Len(log) < MaxPOLog
           /\ number_sequences' = seqs
           /\ pos' = Append(pos, row)
           /\ log' = Append(log, insert_status_log("purchase_order", id, p_project_id,
                                                   NULL, "draft", "PO created"))
           /\ Done("create_po", id, "ok", NULL)
           /\ UNCHANGED <<po_lines, sequences>>
           /\ POFrame

\* create_purchase_order, Phase 7: the number is drawn from po_number_seq.
\* nextval is not undone by a rollback, but no statement after it can fail.
create_purchase_order(p_project_id, p_vendor_id, p_actor_id, v_uid) ==
  LET err == assert_actor_exists(p_actor_id)
      id == Len(pos) + 1
      v_nextval == sequences.po_number_seq + 1
      row == [project_id |-> p_project_id, vendor_id |-> p_vendor_id,
              po_number |-> dated_doc_number(<<"P", "O">>, v_nextval),
              status |-> "draft", source_pr_id |-> NoId, created_by |-> p_actor_id,
              updated_by |-> p_actor_id, issued_at |-> NULL]
  IN  IF err # "ok" THEN Fail("create_po", NoId, err, NULL)
      ELSE IF ~can_issue_po(v_uid) THEN Fail("create_po", NoId, "not_allowed", NULL)
      ELSE /\ Len(pos) < MaxPOs
           /\ Len(log) < MaxPOLog
           /\ sequences' = [sequences EXCEPT !.po_number_seq = v_nextval]
           /\ pos' = Append(pos, row)
           /\ log' = Append(log, insert_status_log("purchase_order", id, p_project_id,
                                                   NULL, "draft", "PO created (draft)"))
           /\ Done("create_po", id, "ok", NULL)
           /\ UNCHANGED <<po_lines, number_sequences>>
           /\ POFrame

\* The statuses issue_purchase_order refuses.
IssueRefused == {"cancelled", "closed"}

\* issue_purchase_order: every status but cancelled and closed becomes
\* issued, and issued_at is stamped again.
issue_purchase_order(p_purchase_order_id, p_actor_id, v_uid) ==
  LET err == assert_actor_exists(p_actor_id) IN
  IF err # "ok" THEN Fail("issue_po", p_purchase_order_id, err, NULL)
  ELSE IF ~can_issue_po(v_uid) THEN Fail("issue_po", p_purchase_order_id, "not_allowed", NULL)
  ELSE IF ~POExists(p_purchase_order_id)
  THEN Fail("issue_po", p_purchase_order_id, "not_found", NULL)
  ELSE LET v_old == pos[p_purchase_order_id] IN
       IF v_old.status \in IssueRefused
       THEN Fail("issue_po", p_purchase_order_id, "bad_status", v_old.status)
       ELSE /\ Len(log) < MaxPOLog
            /\ pos' = [pos EXCEPT ![p_purchase_order_id] =
                         [@ EXCEPT !.status = "issued", !.issued_at = NowAfter(@),
                                   !.updated_by = p_actor_id]]
            /\ log' = Append(log, insert_status_log("purchase_order", p_purchase_order_id,
                                    v_old.project_id, v_old.status, "issued", "PO issued"))
            /\ Done("issue_po", p_purchase_order_id, "ok", v_old.status)
            /\ UNCHANGED <<po_lines, number_sequences, sequences>>
            /\ POFrame

\* set_po_status: the new status is written whatever the old one is.
set_po_status(p_purchase_order_id, p_new_status, p_actor_id) ==
  LET err == assert_actor_exists(p_actor_id) IN
  IF err # "ok" THEN Fail("set_po_status", p_purchase_order_id, err, NULL)
  ELSE IF ~POExists(p_purchase_order_id)
  THEN Fail("set_po_status", p_purchase_order_id, "not_found", NULL)
  ELSE LET v_old == pos[p_purchase_order_id] IN
       /\ Len(log) < MaxPOLog
       /\ pos' = [pos EXCEPT ![p_purchase_order_id] =
                    [@ EXCEPT !.status = p_new_status,
                              !.issued_at = IF p_new_status = "issued" THEN NowAfter(@) ELSE @,
                              !.updated_by = p_actor_id]]
       /\ log' = Append(log, insert_status_log("purchase_order", p_purchase_order_id,
                               v_old.project_id, v_old.status, p_new_status,
                               "PO status updated"))
       /\ Done("set_po_status", p_purchase_order_id, "ok", v_old.status)
       /\ UNCHANGED <<po_lines, number_sequences, sequences>>
       /\ POFrame

\* upsert_purchase_order_line.  The columns purchase_order_id, description
\* and pr_line_id of the Phase 7 RPCs are the po_id, item_name and
\* source_pr_line_id the conversion writes.
upsert_purchase_order_line(p_purchase_order_id, p_project_id, p_actor_id, v_uid, p_id, p_description, p_qty, p_unit_cost) ==
  LET err == assert_actor_exists(p_actor_id)
      op == "upsert_po_line"
  IN
  IF err # "ok" THEN Fail(op, p_purchase_order_id, err, NULL)
  ELSE IF ~can_issue_po(v_uid) THEN Fail(op, p_purchase_order_id, "not_allowed", NULL)
  ELSE IF ~POExists(p_purchase_order_id) THEN Fail(op, p_purchase_order_id, "not_found", NULL)
  ELSE
    LET v_po == pos[p_purchase_order_id]
        v_exists == /\ p_id # NoId
                    /\ p_id \in DOMAIN po_lines
                    /\ po_lines[p_id].po_id = p_purchase_order_id
    IN  IF v_po.status \in {"cancelled", "closed"}
        THEN Fail(op, p_purchase_order_id, "bad_status", v_po.status)
        ELSE IF Btrim(p_description) = <<>>
        THEN Fail(op, p_purchase_order_id, "description_required", v_po.status)
        ELSE /\ Len(log) < MaxPOLog
             /\ IF v_exists
                THEN /\ po_lines' = [po_lines EXCEPT ![p_id] =
                                       [@ EXCEPT !.source_pr_line_id = NoId,
                                                 !.item_name = p_description,
                                                 !.qty = CoalesceNum(p_qty, @),
                                                 !.unit_cost = IF p_unit_cost # NullNum
                                                               THEN p_unit_cost ELSE @]]
                     /\ log' = Append(log, insert_status_log("purchase_order_line", p_id,
                                             po_lines[p_id].project_id, NULL, NULL,
                                             "PO line updated"))
                ELSE /\ Len(po_lines) < MaxPOLines
                     /\ po_lines' = Append(po_lines,
                                       [po_id |-> p_purchase_order_id,
                                        project_id |-> p_project_id,
                                        item_name |-> p_description,
                                        qty |-> CoalesceNum(p_qty, 0),
                                        unit_cost |-> Num(CoalesceNum(p_unit_cost, 0)),
                                        source_pr_line_id |-> NoId])
                     /\ log' = Append(log, insert_status_log("purchase_order_line",
                                             Len(po_lines) + 1, p_project_id, NULL, NULL,
                                             "PO line created"))
             /\ Done(op, p_purchase_order_id, "ok", v_po.status)
             /\ UNCHANGED <<pos, number_sequences, sequences>>
             /\ POFrame

\* ------------------------------------------------------------------ receipts
\* create_receipt of Phase 7 has the signature of the Phase 5 function and
\* replaces it; upsert_receipt_line (10 arguments), mark_receipt_received and
\* reconcile_receipt are Phase 7; set_receipt_status is Phase 5 and has no
\* other version.

\* The values of the enum receipt_status.
receipt_status == {"pending", "received", "reconciled", "cancelled"}

ReceiptExists(r) == r \in DOMAIN receipts

\* What the RPCs of receipts leave alone.
RcvFrame == UNCHANGED <<prs, lines, pos, po_lines, pr_number_counters, conv, number_sequences>>

\* create_receipt: p_purchase_order_id is stored as it is given.
create_receipt(p_project_id, p_actor_id, v_uid, p_vendor_id, p_purchase_order_id) ==
  LET err == assert_actor_exists(p_actor_id)
      id == Len(receipts) + 1
      v_nextval == sequences.receipt_number_seq + 1
      row == [project_id |-> p_project_id, vendor_id |-> p_vendor_id,
              purchase_order_id |-> p_purchase_order_id,
              receipt_number |-> dated_doc_number(<<"R", "C", "V">>, v_nextval),
              status |-> "pending", received_by |-> p_actor_id, received_at |-> NULL]
  IN  IF err # "ok" THEN Fail("create_receipt", NoId, err, NULL)
      ELSE IF ~can_receive(v_uid) THEN Fail("create_receipt", NoId, "not_allowed", NULL)
      ELSE /\ Len(receipts) < MaxReceipts
           /\ Len(log) < MaxRcvLog
           /\ sequences' = [sequences EXCEPT !.receipt_number_seq = v_nextval]
           /\ receipts' = Append(receipts, row)
           /\ log' = Append(log, insert_status_log("receipt", id, p_project_id,
                                                   NULL, "pending", "Receipt created"))
           /\ Done("create_receipt", id, "ok", NULL)
           /\ UNCHANGED receipt_lines
           /\ RcvFrame

upsert_receipt_line(p_receipt_id, p_project_id, p_actor_id, v_uid, p_id, p_purchase_order_line_id, p_description, p_qty_received) ==
  LET err == assert_actor_exists(p_actor_id)
      op == "upsert_receipt_line"
  IN
  IF err # "ok" THEN Fail(op, p_receipt_id, err, NULL)
  ELSE IF ~can_receive(v_uid) THEN Fail(op, p_receipt_id, "not_allowed", NULL)
  ELSE IF ~ReceiptExists(p_receipt_id) THEN Fail(op, p_receipt_id, "not_found", NULL)
  ELSE
    LET v_r == receipts[p_receipt_id]
        v_exists == /\ p_id # NoId
                    /\ p_id \in DOMAIN receipt_lines
                    /\ receipt_lines[p_id].receipt_id = p_receipt_id
    IN  IF v_r.status = "cancelled" THEN Fail(op, p_receipt_id, "cancelled", v_r.status)
        ELSE IF Btrim(p_description) = <<>>
        THEN Fail(op, p_receipt_id, "description_required", v_r.status)
        ELSE /\ Len(log) < MaxRcvLog
             /\ IF v_exists
                THEN /\ receipt_lines' =
                          [receipt_lines EXCEPT ![p_id] =
                             [@ EXCEPT !.purchase_order_line_id = p_purchase_order_line_id,
                                       !.description = p_description,
                                       !.qty_received = CoalesceNum(p_qty_received, @)]]
                     /\ log' = Append(log, insert_status_log("receipt_line", p_id,
                                             receipt_lines[p_id].project_id, NULL, NULL,
                                             "Receipt line updated"))
                ELSE /\ Len(receipt_lines) < MaxRcvLines
                     /\ receipt_lines' = Append(receipt_lines,
                                           [receipt_id |-> p_receipt_id,
                                            project_id |-> p_project_id,
                                            purchase_order_line_id |-> p_purchase_order_line_id,
                                            description |-> p_description,
                                            qty_received |-> CoalesceNum(p_qty_received, 0)])
                     /\ log' = Append(log, insert_status_log("receipt_line",
                                             Len(receipt_lines) + 1, p_project_id, NULL, NULL,
                                             "Receipt line created"))
             /\ Done(op, p_receipt_id, "ok", v_r.status)
             /\ UNCHANGED <<receipts, sequences>>
             /\ RcvFrame

\* select count(*) from receipt_lines where receipt_id = r and
\* purchase_order_line_id is null
v_unlinked(r) ==
  Cardinality({i \in DOMAIN receipt_lines :
                 /\ receipt_lines[i].receipt_id = r
                 /\ receipt_lines[i].purchase_order_line_id = NoId})

\* A mark-received that always ends in received.
MarkedStatus_always_received(n) == "received"

\* "case when v_unlinked > 0 then 'received' else 'reconciled' end"
MarkedStatus(n) == IF n > 0 THEN "received" ELSE "reconciled"

mark_receipt_received(p_receipt_id, p_actor_id, v_uid) ==
  LET err == assert_actor_exists(p_actor_id)
      op == "mark_received"
  IN
  IF err # "ok" THEN Fail(op, p_receipt_id, err, NULL)
  ELSE IF ~can_receive(v_uid) THEN Fail(op, p_receipt_id, "not_allowed", NULL)
  ELSE IF ~ReceiptExists(p_receipt_id) THEN Fail(op, p_receipt_id, "not_found", NULL)
  ELSE
    LET v_old == receipts[p_receipt_id]
        v_status == MarkedStatus(v_unlinked(p_receipt_id))
    IN  IF v_old.status = "cancelled" THEN Fail(op, p_receipt_id, "cancelled", v_old.status)
        ELSE /\ Len(log) < MaxRcvLog
             /\ receipts' = [receipts EXCEPT ![p_receipt_id] =
                               [@ EXCEPT !.status = v_status, !.received_at = NowAfter(@),
                                         !.received_by = p_actor_id]]
             /\ log' = Append(log, insert_status_log("receipt", p_receipt_id,
                                     v_old.project_id, v_old.status, v_status,
                                     "Receipt marked received"))
             /\ Done(op, p_receipt_id, "ok", v_old.status)
             /\ UNCHANGED <<receipt_lines, sequences>>
             /\ RcvFrame

\* 'Receipt still has % unlinked lines, cannot reconcile'
UnlinkedError(n) ==
  CASE n = 1 -> "has_1_unlinked_lines"
    [] n = 2 -> "has_2_unlinked_lines"
    [] n = 3 -> "has_3_unlinked_lines"
    [] OTHER -> "has_more_unlinked_lines"

\* A reconcile that does not count the unlinked lines.
ReconcileBlocked_never(n) == FALSE

\* "if v_unlinked > 0 then raise exception"
ReconcileBlocked(n) == n > 0

reconcile_receipt(p_receipt_id, p_actor_id, v_uid) ==
  LET err == assert_actor_exists(p_actor_id)
      op == "reconcile"
  IN
  IF err # "ok" THEN Fail(op, p_receipt_id, err, NULL)
  ELSE IF ~role_in(v_uid, {"purchasing", "ops", "accounting", "executive", "admin",
                           "commandant"})
  THEN Fail(op, p_receipt_id, "not_allowed", NULL)
  ELSE IF ~ReceiptExists(p_receipt_id) THEN Fail(op, p_receipt_id, "not_found", NULL)
  ELSE
    LET v_old == receipts[p_receipt_id]
        n == v_unlinked(p_receipt_id)
    IN  IF ReconcileBlocked(n) THEN Fail(op, p_receipt_id, UnlinkedError(n), v_old.status)
        ELSE /\ Len(log) < MaxRcvLog
             /\ receipts' = [receipts EXCEPT ![p_receipt_id] = [@ EXCEPT !.status = "reconciled"]]
             /\ log' = Append(log, insert_status_log("receipt", p_receipt_id,
                                     v_old.project_id, v_old.status, "reconciled",
                                     "Receipt reconciled"))
             /\ Done(op, p_receipt_id, "ok", v_old.status)
             /\ UNCHANGED <<receipt_lines, sequences>>
             /\ RcvFrame

\* set_receipt_status: the new status is written whatever the old one is;
\* received_at and received_by are filled when they are empty.
set_receipt_status(p_receipt_id, p_new_status, p_actor_id) ==
  LET err == assert_actor_exists(p_actor_id)
      op == "set_receipt_status"
  IN
  IF err # "ok" THEN Fail(op, p_receipt_id, err, NULL)
  ELSE IF ~ReceiptExists(p_receipt_id) THEN Fail(op, p_receipt_id, "not_found", NULL)
  ELSE
    LET v_old == receipts[p_receipt_id] IN
    /\ Len(log) < MaxRcvLog
    /\ receipts' = [receipts EXCEPT ![p_receipt_id] =
                      [@ EXCEPT !.status = p_new_status,
                                !.received_at = IF p_new_status = "received" /\ @ = NULL
                                                THEN Now ELSE @,
                                !.received_by = IF p_new_status = "received" /\ @ = NULL
                                                THEN p_actor_id ELSE @]]
    /\ log' = Append(log, insert_status_log("receipt", p_receipt_id, v_old.project_id,
                            v_old.status, p_new_status, "Receipt status updated"))
    /\ Done(op, p_receipt_id, "ok", v_old.status)
    /\ UNCHANGED <<receipt_lines, sequences>>
    /\ RcvFrame

\* --------------------------------------------- read model: receipt coverage
\* v_po_line_receipt_coverage (Migration 0006): one row per PO line, joined
\* to the receipt lines that reference it and to their receipts.

\* The receipt lines the view counts for a PO line: all of them.
CountedStatuses_all == receipt_status

\* "filter (where r.status <> 'cancelled')"
CountedStatuses == receipt_status \ {"cancelled"}

RECURSIVE SumReceived(_, _)
\* sum(rl.qty_received) filter (...) over the first n receipt lines, for PO
\* line pol; NullNum when no row is summed.
SumReceived(pol, n) ==
  IF n = 0 THEN NullNum
  ELSE LET rest == SumReceived(pol, n - 1)
           rl == receipt_lines[n]
       IN  IF /\ rl.purchase_order_line_id = pol
              /\ rl.receipt_id \in DOMAIN receipts
              /\ receipts[rl.receipt_id].status \in CountedStatuses
           THEN Num(CoalesceNum(rest, 0) + rl.qty_received)
           ELSE rest

\* qty_received_total: coalesce(sum(...), 0)
qty_received_total(pol) == CoalesceNum(SumReceived(pol, Len(receipt_lines)), 0)

Greatest(a, b) == IF a >= b THEN a ELSE b

\* An open quantity that may go below zero.
OpenRemaining_unclamped(v_qty, v_received) == CoalesceNum(v_qty, 0) - v_received

\* greatest(coalesce(pol.qty, 0) - received, 0)
OpenRemaining(v_qty, v_received) == Greatest(CoalesceNum(v_qty, 0) - v_received, 0)

qty_open_remaining(pol) == OpenRemaining(Num(po_lines[pol].qty), qty_received_total(pol))

\* A coverage that is received only when the two quantities are equal.
Coverage_equal_only(v_qty, v_received) ==
  IF CoalesceNum(v_qty, 0) <= 0 THEN "unknown"
  ELSE IF v_received <= 0 THEN "not_received"
  ELSE IF v_received # CoalesceNum(v_qty, 0) THEN "partial"
  ELSE "received"

\* The CASE of receipt_coverage.
Coverage(v_qty, v_received) ==
  IF CoalesceNum(v_qty, 0) <= 0 THEN "unknown"
  ELSE IF v_received <= 0 THEN "not_received"
  ELSE IF v_received < CoalesceNum(v_qty, 0) THEN "partial"
  ELSE "received"

receipt_coverage(pol) == Coverage(Num(po_lines[pol].qty), qty_received_total(pol))

\* ------------------------------------- specification: purchase orders
POIds == 1..MaxPOs
POLineIds == 0..MaxPOLines
POCallers == {"u_ops", "u_shop"}

\* Purchase orders from creation to the end of their life.  u_shop has a
\* profile but not a role that may issue; V0 is not an active vendor.
NextPO ==
  \/ \E v \in {"V1", "V0"} : create_purchase_order_phase5("P1", v, "u_ops")
  \/ \E u \in POCallers : create_purchase_order("P1", "V1", "u_ops", u)
  \/ \E p \in POIds, u \in POCallers : issue_purchase_order(p, "u_ops", u)
  \/ \E p \in POIds, s \in po_status : set_po_status(p, s, "u_ops")
  \/ \E i \in POLineIds, q \in {NullNum, Num(10)} :
       upsert_purchase_order_line(1, "P1", "u_ops", "u_ops", i, <<"b">>, q, NullNum)

SpecPO == Init /\ [][NextPO]_vars

\* ------------------------------------------- specification: receiving
ReceiptIds == 1..MaxReceipts
RcvLineIds == 1..MaxRcvLines
\* The quantity ordered: none given (stored as 0), or 10.
QtysOrdered == {0, 10}
\* The quantities of the receipt lines: 4 and 6 against an order of 10.
QtysReceived == {Num(4), Num(6)}

\* The state after create_purchase_order('P1', 'V1', u_ops) and one
\* upsert_purchase_order_line on the new PO: a draft PO with one line.
InitRcv ==
  /\ prs = <<>>
  /\ lines = <<>>
  /\ pos = << [project_id |-> "P1", vendor_id |-> "V1",
               po_number |-> dated_doc_number(<<"P", "O">>, 1),
               status |-> "draft", source_pr_id |-> NoId, created_by |-> "u_ops",
               updated_by |-> "u_ops", issued_at |-> NULL] >>
  /\ \E q \in QtysOrdered :
       po_lines = << [po_id |-> 1, project_id |-> "P1", item_name |-> <<"b">>,
                      qty |-> q, unit_cost |-> Num(0), source_pr_line_id |-> NoId] >>
  /\ log = << insert_status_log("purchase_order", 1, "P1", NULL, "draft", "PO created (draft)"),
              insert_status_log("purchase_order_line", 1, "P1", NULL, NULL, "PO line created") >>
  /\ pr_number_counters = <<>>
  /\ conv = [s \in Sessions |-> Idle]
  /\ last = [op |-> "upsert_po_line", pr |-> 1, result |-> "ok", old_status |-> "draft",
             waited |-> FALSE]
  /\ gate = [actor |-> NULL, total |-> 0, result |-> "unset"]
  /\ receipts = <<>>
  /\ receipt_lines = <<>>
  /\ number_sequences = <<>>
  /\ sequences = [po_number_seq |-> 1, receipt_number_seq |-> 0]
  /\ numcall = [s \in Sessions |-> NumIdle]
  /\ issued = <<>>
  /\ appr = [s \in Sessions |-> ApprIdle]

\* Receipts against the PO: created for its project or for another one, or
\* for no PO, with lines linked to the PO line or blind, and moved from
\* status to status by set_receipt_status.
ReceiptArgs == {<<"P1", 1>>, <<"P2", 1>>, <<"P1", NoId>>}

NextRcv ==
  \/ \E x \in ReceiptArgs : create_receipt(x[1], "u_ops", "u_ops", "V1", x[2])
  \/ \E r \in ReceiptIds, l \in {NoId, 1}, q \in QtysReceived :
       /\ ReceiptExists(r)
       /\ upsert_receipt_line(r, receipts[r].project_id, "u_ops", "u_ops", NoId, l, <<"b">>, q)
  \/ \E r \in ReceiptIds, s \in receipt_status : set_receipt_status(r, s, "u_ops")

SpecRcv == InitRcv /\ [][NextRcv]_vars

\* ------------------------------- specification: receiving and reconciling
\* One receipt against the PO: its lines are added blind or linked, linked or
\* unlinked afterwards (an update that gives no quantity keeps the stored
\* one), and the receipt is marked received, reconciled, or moved by
\* set_receipt_status.  u_shop may receive but not reconcile.
RcvCallers == {"u_ops", "u_shop"}

NextRecon ==
  \/ receipts = <<>> /\ \E u \in RcvCallers : create_receipt("P1", "u_ops", u, "V1", 1)
  \/ \E l \in {NoId, 1} :
       upsert_receipt_line(1, "P1", "u_ops", "u_ops", NoId, l, <<"b">>, Num(4))
  \/ \E i \in RcvLineIds, l \in {NoId, 1} :
       upsert_receipt_line(1, "P1", "u_ops", "u_ops", i, l, <<"b">>, NullNum)
  \/ \E u \in RcvCallers : mark_receipt_received(1, "u_ops", u)
  \/ \E u \in RcvCallers : reconcile_receipt(1, "u_ops", u)
  \/ \E s \in receipt_status : set_receipt_status(1, s, "u_ops")

SpecRecon == InitRcv /\ [][NextRecon]_vars

\* ------------------------- specification: who moves a purchase order
\* One purchase order, issued, acknowledged or put back to draft by callers
\* whose role may issue (u_ops) and by callers whose role may not (u_shop).
\* The actor a call names and the session user are the same user.
NextPOGate ==
  \/ pos = <<>> /\ create_purchase_order("P1", "V1", "u_ops", "u_ops")
  \/ \E a \in POCallers : issue_purchase_order(1, a, a)
  \/ \E s \in {"draft", "issued", "acknowledged"}, a \in POCallers : set_po_status(1, s, a)

SpecPOGate == Init /\ [][NextPOGate]_vars

\* ------------------------------- direct access of a client to status_logs
\* INSERT, UPDATE and DELETE on status_logs are revoked from authenticated
\* and anon, and the only policy for writes, status_logs_no_write, is
\* USING (false) WITH CHECK (false).
status_logs_revoked == {"insert", "update", "delete"}

status_logs_no_write == [using |-> FALSE, with_check |-> FALSE]

\* A table every client may write.
ClientMayWrite_open(cmd) == TRUE

\* INSERT passes WITH CHECK, DELETE passes USING, UPDATE passes both.
ClientMayWrite(cmd) ==
  /\ cmd \notin status_logs_revoked
  /\ (cmd \in {"update", "delete"} => status_logs_no_write.using)
  /\ (cmd \in {"insert", "update"} => status_logs_no_write.with_check)

\* The log without row i.
DeleteRow(i) == [j \in 1..(Len(log) - 1) |-> IF j < i THEN log[j] ELSE log[j + 1]]

\* A statement on status_logs sent by a client, outside every RPC.
client_write_status_logs(cmd, i) ==
  /\ cmd = "insert" \/ i \in DOMAIN log
  /\ IF ClientMayWrite(cmd)
     THEN /\ log' = CASE cmd = "insert" ->
                          Append(log, insert_status_log("purchase_request", 1, NULL, NULL, "approved", "forged"))
                     [] cmd = "update" -> [log EXCEPT ![i].to_status = "approved"]
                     [] cmd = "delete" -> DeleteRow(i)
          /\ cmd = "insert" => Len(log) < MaxLog
          /\ Done("client_" \o cmd, NoId, "ok", NULL)
          /\ UNCHANGED <<prs, lines, pos, po_lines, pr_number_counters, receiving, conv>>
     ELSE Fail("client_" \o cmd, NoId, "permission_denied", NULL)

\* One PR, one PO and one receipt taken through their lifecycles by RPCs,
\* with a client writing to status_logs in between.
NextLog ==
  \/ create_purchase_request("P1", "u_ops", NULL, NULL, NULL)
  \/ upsert_purchase_request_line(1, "u_ops", NoId, <<"b">>, Num(2), NullNum, TRUE)
  \/ \E d \in Dates : update_purchase_request_header(1, "u_ops", d, NULL, NULL)
  \/ submit_purchase_request(1, "u_ops")
  \/ approve_purchase_request(1, "u_exec")
  \/ reject_purchase_request(1, "u_exec")
  \/ rpc_pr_convert_to_po(1, "V1", "u_exec")
  \/ pos = <<>> /\ create_purchase_order("P1", "V1", "u_ops", "u_ops")
  \/ issue_purchase_order(1, "u_ops", "u_ops")
  \/ receipts = <<>> /\ create_receipt("P1", "u_ops", "u_ops", "V1", 1)
  \/ mark_receipt_received(1, "u_ops", "u_ops")
  \/ \E cmd \in status_logs_revoked, i \in 1..2 : client_write_status_logs(cmd, i)

SpecLog == Init /\ [][NextLog]_vars

\* ------------------------------------------- rpc_pr_approve (two sessions)
\* rpc_pr_approve(p_pr_id) reads the status with a plain SELECT, which takes
\* no row lock, and then updates the row WHERE id = p_pr_id only.  Under
\* READ COMMITTED another transaction may commit between the two statements.
\* It writes no status log entry.
rpc_pr_approve_select(s, p_pr_id, v_uid) ==
  /\ appr[s].phase = "idle"
  /\ LET err == ConvAuth(v_uid) IN
     IF err # "ok" THEN Fail("rpc_pr_approve", p_pr_id, err, NULL)
     ELSE IF ~Exists(p_pr_id) THEN Fail("rpc_pr_approve", p_pr_id, "not_found", NULL)
     ELSE IF prs[p_pr_id].status # "submitted"
     THEN Fail("rpc_pr_approve", p_pr_id, "bad_status", prs[p_pr_id].status)
     ELSE /\ appr' = [appr EXCEPT ![s] = [phase |-> "read", pr |-> p_pr_id, uid |-> v_uid,
                                          v_status |-> prs[p_pr_id].status]]
          /\ UNCHANGED <<store, conv, last, gate, numcall, issued>>

\* The UPDATE and the commit; the UPDATE waits for a row lock to be released.
rpc_pr_approve_update(s) ==
  LET c == appr[s] IN
  /\ c.phase = "read"
  /\ ~Locked(c.pr)
  /\ prs' = [prs EXCEPT ![c.pr].status = "approved",
                        ![c.pr].approved_at = Now,
                        ![c.pr].approved_by = c.uid]
  /\ last' = [op |-> "rpc_pr_approve", pr |-> c.pr, result |-> "ok",
              old_status |-> prs[c.pr].status, waited |-> FALSE]
  /\ appr' = [appr EXCEPT ![s] = ApprIdle]
  /\ UNCHANGED <<lines, pos, po_lines, log, pr_number_counters, receiving, conv,
                 gate, numcall, issued>>

\* One PR approved through either RPC by two sessions.
ApproveCallers == {"u_exec", "u_admin", "u_ops"}

NextApprove ==
  \/ create_purchase_request("P1", "u_ops", NULL, NULL, NULL)
  \/ upsert_purchase_request_line(1, "u_ops", NoId, <<"b">>, Num(2), NullNum, TRUE)
  \/ \E d \in Dates : update_purchase_request_header(1, "u_ops", d, NULL, NULL)
  \/ submit_purchase_request(1, "u_ops")
  \/ \E a \in ApproveCallers : approve_purchase_request(1, a)
  \/ reject_purchase_request(1, "u_exec")
  \/ \E s \in Sessions, u \in ApproveCallers : rpc_pr_approve_select(s, 1, u)
  \/ \E s \in Sessions : rpc_pr_approve_update(s)

SpecApprove == Init /\ [][NextApprove]_vars

\* ------------------------------------------------ upsert_pr_line (Phase 5)
\* upsert_pr_line is a function of its own name, granted to authenticated
\* and never dropped: it stays callable next to upsert_purchase_request_line.
\* It reads the PR without a lock, tests neither the status nor the link to a
\* PO, and resets no approval.
upsert_pr_line(p_purchase_request_id, p_actor_id, p_id, p_description, p_qty, p_est_unit_cost, p_is_active) ==
  LET err == assert_actor_exists(p_actor_id)
      p   == p_purchase_request_id
      v_project_id == IF Exists(p) THEN prs[p].project_id ELSE NULL
      v_exists == p_id # NoId /\ p_id \in DOMAIN lines
                  /\ lines[p_id].purchase_request_id = p
      v_id == IF v_exists THEN p_id ELSE Len(lines) + 1
      v_line == [purchase_request_id |-> p,
                 project_id |-> v_project_id,
                 description |-> p_description,
                 qty |-> CoalesceNum(p_qty, 0),
                 est_unit_cost |-> p_est_unit_cost,
                 is_active |-> p_is_active]
  IN
  IF err # "ok" THEN Fail("upsert_pr_line", p, err, NULL)
  ELSE IF v_project_id = NULL THEN Fail("upsert_pr_line", p, "not_found", NULL)
  ELSE IF Btrim(p_description) = <<>>
  THEN Fail("upsert_pr_line", p, "description_required", prs[p].status)
  ELSE IF p_qty = NullNum \/ p_qty[1] < 0
  THEN Fail("upsert_pr_line", p, "qty_invalid", prs[p].status)
  ELSE IF p_est_unit_cost # NullNum /\ p_est_unit_cost[1] < 0
  THEN Fail("upsert_pr_line", p, "cost_invalid", prs[p].status)
  ELSE /\ v_exists \/ Len(lines) < MaxLines
       /\ Len(log) < MaxLog
       /\ lines' = IF v_exists
                   THEN [lines EXCEPT ![p_id] = v_line]
                   ELSE Append(lines, v_line)
       /\ log' = Append(log, insert_status_log("pr_line", v_id, v_project_id, NULL, NULL,
                               IF v_exists THEN "PR line updated" ELSE "PR line created"))
       /\ Done("upsert_pr_line", p, "ok", prs[p].status)
       /\ UNCHANGED <<prs, pos, po_lines, pr_number_counters, conv, receiving>>

\* The lines of one PR written through both RPCs, with quantities and costs
\* that are missing, negative or valid, in every status of the PR.
LineInputs ==
  { <<<<"b">>, Num(2), NullNum>>, <<<<" ">>, Num(2), NullNum>>, <<<<"b">>, NullNum, NullNum>>,
    <<<<"b">>, Num(0 - 1), NullNum>>, <<<<"b">>, Num(2), Num(0 - 100)>> }
LineArgIds == {NoId, 1}

NextLines ==
  \/ create_purchase_request("P1", "u_ops", NULL, NULL, NULL)
  \/ \E d \in Dates : update_purchase_request_header(1, "u_ops", d, NULL, NULL)
  \/ \E i \in LineArgIds, x \in LineInputs :
       upsert_purchase_request_line(1, "u_ops", i, x[1], x[2], x[3], TRUE)
  \/ \E i \in LineArgIds, x \in LineInputs :
       upsert_pr_line(1, "u_ops", i, x[1], x[2], x[3], TRUE)
  \/ submit_purchase_request(1, "u_ops")
  \/ approve_purchase_request(1, "u_exec")
  \/ reject_purchase_request(1, "u_exec")

SpecLines == Init /\ [][NextLines]_vars

\* ------------------- specification: calls by an actor that does not exist
\* Every lifecycle RPC called for actor a.  The RPCs of Phase 7 are called
\* in the session of u_ops; the conversion and rpc_pr_approve have no actor
\* argument: their actor is the session user.
CallBy(a) ==
  \/ create_purchase_request("P1", a, NULL, NULL, NULL)
  \/ \E p \in PRIds : update_purchase_request_header(p, a, "d1", NULL, NULL)
  \/ \E p \in PRIds : upsert_purchase_request_line(p, a, NoId, <<"b">>, Num(2), NullNum, TRUE)
  \/ \E p \in PRIds : upsert_pr_line(p, a, NoId, <<"b">>, Num(2), NullNum, TRUE)
  \/ \E p \in PRIds : submit_purchase_request(p, a)
  \/ \E p \in PRIds : approve_purchase_request(p, a)
  \/ \E p \in PRIds : reject_purchase_request(p, a)
  \/ \E p \in PRIds : rpc_pr_approve_select("s1", p, a)
  \/ \E p \in PRIds : rpc_pr_convert_to_po(p, "V1", a)
  \/ create_purchase_order_phase5("P1", "V1", a)
  \/ create_purchase_order("P1", "V1", a, "u_ops")
  \/ issue_purchase_order(1, a, "u_ops")
  \/ set_po_status(1, "issued", a)
  \/ upsert_purchase_order_line(1, "P1", a, "u_ops", NoId, <<"b">>, Num(10), NullNum)
  \/ create_receipt("P1", a, "u_ops", "V1", 1)
  \/ upsert_receipt_line(1, "P1", a, "u_ops", NoId, 1, <<"b">>, Num(4))
  \/ mark_receipt_received(1, a, "u_ops")
  \/ reconcile_receipt(1, a, "u_ops")
  \/ set_receipt_status(1, "cancelled", a)

\* The documents and lines the refused calls are aimed at, written by u_ops.
Populate ==
  \/ create_purchase_request("P1", "u_ops", NULL, NULL, NULL)
  \/ upsert_purchase_request_line(1, "u_ops", NoId, <<"b">>, Num(2), NullNum, TRUE)
  \/ pos = <<>> /\ create_purchase_order("P1", "V1", "u_ops", "u_ops")
  \/ upsert_purchase_order_line(1, "P1", "u_ops", "u_ops", NoId, <<"b">>, Num(10), NullNum)
  \/ receipts = <<>> /\ create_receipt("P1", "u_ops", "u_ops", "V1", 1)
  \/ upsert_receipt_line(1, "P1", "u_ops", "u_ops", NoId, 1, <<"b">>, Num(4))

NextActors == Populate \/ \E a \in InvalidActors : CallBy(a)

SpecActors == Init /\ [][NextActors]_vars

\* ------------------------- upsert_purchase_request_line (Phase 7 overload)
\* The Phase 7 function has one argument more, p_project_id, so the Phase 9
\* function of 12 arguments does not replace it: a call that names
\* p_project_id reaches it.  It refuses the statuses cancelled and fulfilled
\* only, and a new line gets the project the caller passes.
upsert_purchase_request_line_phase7(p_purchase_request_id, p_project_id, p_actor_id, p_id, p_description, p_qty, p_est_unit_cost, p_is_active) ==
  LET err == assert_actor_exists(p_actor_id)
      p   == p_purchase_request_id
      op  == "upsert_line_phase7"
  IN
  IF err # "ok" THEN Fail(op, p, err, NULL)
  ELSE IF ~Exists(p) THEN Fail(op, p, "not_found", NULL)
  ELSE
    LET v_pr == prs[p]
        v_exists == p_id # NoId /\ p_id \in DOMAIN lines
                    /\ lines[p_id].purchase_request_id = p
        v_id == IF v_exists THEN p_id ELSE Len(lines) + 1
        v_new_line == IF v_exists
                      THEN [lines[p_id] EXCEPT !.description = p_description,
                                               !.qty = CoalesceNum(p_qty, @),
                                               !.est_unit_cost = p_est_unit_cost,
                                               !.is_active = p_is_active]
                      ELSE [purchase_request_id |-> p,
                            project_id |-> p_project_id,
                            description |-> p_description,
                            qty |-> CoalesceNum(p_qty, 0),
                            est_unit_cost |-> p_est_unit_cost,
                            is_active |-> p_is_active]
        lineLog == insert_status_log("purchase_request_line", v_id, v_pr.project_id,
                     NULL, NULL,
                     IF v_exists THEN "PR line updated" ELSE "PR line created")
        resetLog == IF v_pr.status = "approved"
                    THEN <<insert_status_log("purchase_request", p, v_pr.project_id,
                             "approved", "submitted",
                             "PR edited after approval, approval reset")>>
                    ELSE <<>>
    IN  /\ ~Locked(p)
        /\ IF v_pr.status \in {"cancelled", "fulfilled"}
           THEN Fail(op, p, "bad_status", v_pr.status)
           ELSE IF Btrim(p_description) = <<>>
           THEN Fail(op, p, "description_required", v_pr.status)
           ELSE /\ v_exists \/ Len(lines) < MaxLines
                /\ lines' = IF v_exists
                            THEN [lines EXCEPT ![p_id] = v_new_line]
                            ELSE Append(lines, v_new_line)
                /\ prs' = IF v_pr.status = "approved"
                          THEN [prs EXCEPT ![p] = ResetRow(@)]
                          ELSE prs
                /\ log' = Append(log, lineLog) \o resetLog
                /\ Len(log') <= MaxLog
                /\ Done(op, p, "ok", v_pr.status)
                /\ UNCHANGED <<pos, po_lines, pr_number_counters, conv, receiving>>

\* The lines of one PR of project P1 written through the three line RPCs,
\* the Phase 7 one with the project of the PR or with another project.
NextLineProject ==
  \/ create_purchase_request("P1", "u_ops", NULL, NULL, NULL)
  \/ \E i \in LineArgIds, pj \in projects :
       upsert_purchase_request_line_phase7(1, pj, "u_ops", i, <<"b">>, Num(2), NullNum, TRUE)
  \/ \E i \in LineArgIds :
       upsert_purchase_request_line(1, "u_ops", i, <<"b">>, Num(2), Num(500), TRUE)
  \/ \E i \in LineArgIds :
       upsert_pr_line(1, "u_ops", i, <<"b">>, Num(2), Num(700), TRUE)
  \/ submit_purchase_request(1, "u_ops")
  \/ approve_purchase_request(1, "u_exec")

SpecLineProject == Init /\ [][NextLineProject]_vars

\* ------------------------------ specification: who reconciles a receipt
\* One receipt of u_ops with linked and blind lines; u_ops and u_shop each
\* act for themselves: the actor passed is the session user.
NextReconGate ==
  \/ receipts = <<>> /\ create_receipt("P1", "u_ops", "u_ops", "V1", 1)
  \/ \E l \in {NoId, 1} :
       upsert_receipt_line(1, "P1", "u_ops", "u_ops", NoId, l, <<"b">>, Num(4))
  \/ \E a \in RcvCallers : mark_receipt_received(1, a, a)
  \/ \E a \in RcvCallers : reconcile_receipt(1, a, a)
  \/ \E a \in RcvCallers, s \in {"pending", "received", "reconciled"} :
       set_receipt_status(1, s, a)

SpecReconGate == InitRcv /\ [][NextReconGate]_vars

\* ------------------------------- approve_purchase_request in two steps
\* The same function with its transaction open between the gate and the
\* UPDATE: step 1 locks the PR row, tests the status, reads pr_est_total and
\* asks can_approve_pr; step 2 writes the approval and commits.  RPCs that
\* take the PR row FOR UPDATE wait in between; upsert_pr_line takes no lock
\* on the PR and commits.
approve_purchase_request_lock(s, p_pr_id, p_actor_id) ==
  /\ appr[s].phase = "idle"
  /\ LET err == assert_actor_exists(p_actor_id) IN
     IF err # "ok" THEN Fail("approve", p_pr_id, err, NULL)
     ELSE IF ~Exists(p_pr_id) THEN Fail("approve", p_pr_id, "not_found", NULL)
     ELSE
       LET v_old == prs[p_pr_id]
           v_total == pr_est_total(p_pr_id)
       IN
       /\ ~Locked(p_pr_id)
       /\ IF v_old.status \notin ApprovableFrom
          THEN Fail("approve", p_pr_id, "bad_status", v_old.status)
          ELSE IF ~ApproverGate(p_actor_id, v_total)
          THEN Fail("approve", p_pr_id, "not_authorized", v_old.status)
          ELSE /\ appr' = [appr EXCEPT ![s] = [phase |-> "locked", pr |-> p_pr_id,
                                               uid |-> p_actor_id,
                                               v_status |-> v_old.status]]
               /\ UNCHANGED <<store, conv, last, gate, numcall, issued>>

approve_purchase_request_apply(s) ==
  LET c == appr[s] IN
  /\ c.phase = "locked"
  /\ prs' = [prs EXCEPT ![c.pr] = ApprovedRow(@, c.uid)]
  /\ log' = Append(log, insert_status_log("purchase_request", c.pr,
                          prs[c.pr].project_id, c.v_status, "approved", "PR approved"))
  /\ Len(log') <= MaxLog
  /\ last' = [op |-> "approve", pr |-> c.pr, result |-> "ok",
              old_status |-> c.v_status, waited |-> FALSE]
  /\ appr' = [appr EXCEPT ![s] = ApprIdle]
  /\ UNCHANGED <<lines, pos, po_lines, pr_number_counters, receiving, conv,
                 gate, numcall, issued>>

\* One PR whose total is 600.00 with one line of quantity 2 and 1200.00 with
\* two lines or with quantity 4, approved by ops or by an executive while
\* lines are written.  upsert_pr_line rewrites line 1 in place: an UPDATE
\* that leaves purchase_request_id alone touches no lock of the PR row.
RaceCost == Num(300 * 100)

NextApproveRace ==
  \/ create_purchase_request("P1", "u_ops", NULL, NULL, NULL)
  \/ upsert_purchase_request_line(1, "u_ops", NoId, <<"b">>, Num(2), RaceCost, TRUE)
  \/ upsert_purchase_request_line_phase7(1, "P1", "u_ops", NoId, <<"b">>, Num(2), RaceCost, TRUE)
  \/ upsert_pr_line(1, "u_ops", 1, <<"b">>, Num(4), RaceCost, TRUE)
  \/ submit_purchase_request(1, "u_ops")
  \/ \E s \in Sessions, a \in ValidActors : approve_purchase_request_lock(s, 1, a)
  \/ \E s \in Sessions : approve_purchase_request_apply(s)

SpecApproveRace == Init /\ [][NextApproveRace]_vars

\* --------------------------------- specification: PR numbers over the years
\* next_pr_number() called as the years go by: now() never goes back, so the
\* year of a call is not before the year of an earlier call.
MaxYears == 3
Years == CurrentYear..(CurrentYear + MaxYears)

next_pr_number_call(v_year) ==
  /\ \A y \in DOMAIN pr_number_counters : y <= v_year
  /\ next_pr_number_seq_at(pr_number_counters, v_year) <= MaxSeq
  /\ pr_number_counters' = next_pr_number_counters_at(pr_number_counters, v_year)
  /\ issued' = Append(issued, [category |-> v_year,
                               value |-> next_pr_number_seq_at(pr_number_counters, v_year),
                               text |-> next_pr_number_at(pr_number_counters, v_year)])
  /\ UNCHANGED <<prs, lines, pos, po_lines, log, conv, last, gate, receiving, numcall, appr>>

NextYears == \E y \in Years : next_pr_number_call(y)

SpecYears == Init /\ [][NextYears]_vars

\* ------------------------------ specification: formatting sequence values
\* The three formatters applied to sequence values on both sides of their pad
\* widths (4, 5 and 6 digits); every result is kept with the prefix and the
\* value it was formatted from.
MaxFormatted == 2
SeqValues == {1, 9999, 10000, 10001, 99999, 100000, 100001, 999999, 1000000, 1000001}
DocPrefixes == {<<"P", "O">>, <<"R", "C", "V">>}

Formatted(v_category, v_seq, v_text) ==
  [category |-> v_category, value |-> v_seq, text |-> v_text]

\* select format_doc_number(p_prefix, p_seq)
format_doc_number_call(p_prefix, p_seq) ==
  /\ Len(issued) < MaxFormatted
  /\ issued' = Append(issued, Formatted(p_prefix, p_seq, format_doc_number(p_prefix, p_seq)))
  /\ UNCHANGED <<store, conv, last, gate, numcall, appr>>

\* The number create_purchase_request builds from nextval() = v_nextval.
dated_doc_number_call(v_nextval) ==
  /\ Len(issued) < MaxFormatted
  /\ issued' = Append(issued, Formatted(<<"P", "R", "-">> \o Today, v_nextval,
                                        dated_doc_number(<<"P", "R">>, v_nextval)))
  /\ UNCHANGED <<store, conv, last, gate, numcall, appr>>

\* next_pr_number() in a year whose counter stands at v_seq - 1.
next_pr_number_format(v_year, v_seq) ==
  /\ Len(issued) < MaxFormatted
  /\ issued' = Append(issued, Formatted(<<"P", "R", "-">> \o IntToText(v_year), v_seq,
                          next_pr_number_at([y \in {v_year} |-> v_seq - 1], v_year)))
  /\ UNCHANGED <<store, conv, last, gate, numcall, appr>>

NextFormat ==
  \/ \E p \in DocPrefixes, n \in SeqValues : format_doc_number_call(p, n)
  \/ \E n \in SeqValues : dated_doc_number_call(n)
  \/ \E y \in {CurrentYear, CurrentYear + 1}, n \in SeqValues : next_pr_number_format(y, n)

SpecFormat == Init /\ [][NextFormat]_vars

\* ------------------------------------------------------------------ claims
\* The vocabulary of the claims.
ApproverRoles == {"executive", "accounting", "admin", "commandant"}
BelowThresholdRoles == {"purchasing", "ops"} \cup ApproverRoles

\* The entries a step appended to the log that record approved -> submitted.
ResetEntries(old, new) ==
  { i \in (Len(old) + 1)..Len(new) :
      /\ new[i].entity_type = "purchase_request"
      /\ new[i].from_status = "approved"
      /\ new[i].to_status = "submitted" }

ActiveLines(p) ==
  { i \in DOMAIN lines : lines[i].purchase_request_id = p /\ lines[i].is_active }

POsOf(p) == { i \in DOMAIN pos : pos[i].source_pr_id = p }

C4_BelowThreshold ==
  (gate.result # "unset" /\ gate.total < 1000 * 100)
    => ((gate.result = "true") <=> (RoleOf(gate.actor) \in BelowThresholdRoles))

C6_LineEditResetsApproval ==
  [][ \A p \in DOMAIN prs :
        ( /\ prs[p].status = "approved"
          /\ last'.op \in {"upsert_line", "upsert_pr_line"}
          /\ last'.pr = p
          /\ last'.result = "ok" )
        => /\ prs'[p].status = "submitted"
           /\ prs'[p].approved_by = NULL
           /\ prs'[p].approved_at = NULL
           /\ Len(log') = Len(log) + 2
           /\ SubSeq(log', 1, Len(log)) = log
           /\ log'[Len(log) + 1].entity_type \in {"purchase_request_line", "pr_line"}
           /\ Cardinality(ResetEntries(log, log')) = 1
           /\ log'[Len(log) + 2].entity_id = p ]_vars

\* C7: a successful header update of an approved PR resets the approval
\* (status submitted, approver fields cleared, one reset entry) when a
\* supplied field differs from the stored one, and leaves the PR approved
\* with its approver fields, and appends no reset entry, when none differs.
C7_HeaderEditResetsIffChanged ==
  [][ \A p \in PRIds, x \in HeaderArgs :
        ( /\ Exists(p)
          /\ prs[p].status = "approved"
          /\ update_purchase_request_header(p, x[1], x[2], x[3], x[4])
          /\ last'.result = "ok" )
        => IF \/ (x[2] # NULL /\ x[2] # prs[p].needed_by_date)
              \/ (x[3] # NULL /\ x[3] # prs[p].priority)
              \/ (x[4] # NULL /\ x[4] # prs[p].notes)
           THEN /\ prs'[p].status = "submitted"
                /\ prs'[p].approved_by = NULL
                /\ prs'[p].approved_at = NULL
                /\ Cardinality(ResetEntries(log, log')) = 1
           ELSE /\ prs'[p].status = "approved"
                /\ prs'[p].approved_by = prs[p].approved_by
                /\ prs'[p].approved_at = prs[p].approved_at
                /\ ResetEntries(log, log') = {} ]_vars

\* The header of an approved PR was updated with the value it already had,
\* and the PR is still approved.
C7_Witness ==
  /\ last.op = "update_header" /\ last.result = "ok" /\ last.old_status = "approved"
  /\ prs[last.pr].status = "approved"
  /\ prs[last.pr].approved_by # NULL
  /\ prs[last.pr].needed_by_date # NULL

\* C8: a submit of a draft PR succeeds only if the PR has at least one active
\* line; with none it fails and the PR stays in draft.
C8_SubmitNeedsActiveLine ==
  (last.op = "submit" /\ last.result = "ok" /\ last.old_status = "draft")
    => ActiveLines(last.pr) # {}

C11_ConversionCopiesLines ==
  [][ \A p \in PRIds, x \in ConvertArgs :
        ( /\ Exists(p)
          /\ rpc_pr_convert_to_po(p, x[1], x[2])
          /\ last'.result = "ok" )
        => LET v_po_id == Len(pos) + 1
               new == (DOMAIN po_lines') \ (DOMAIN po_lines)
               src == { l \in DOMAIN lines : lines[l].purchase_request_id = p }
           IN  /\ prs[p].status = "approved"
               /\ Len(pos') = Len(pos) + 1
               /\ SubSeq(pos', 1, Len(pos)) = pos
               /\ pos'[v_po_id].status = "draft"
               /\ pos'[v_po_id].source_pr_id = p
               /\ SubSeq(po_lines', 1, Len(po_lines)) = po_lines
               /\ Cardinality(new) = Cardinality(src)
               /\ \A i \in new : po_lines'[i].po_id = v_po_id
               /\ { po_lines'[i].source_pr_line_id : i \in new } = src
               /\ prs'[p].po_id = v_po_id
               /\ prs'[p].status = "approved" ]_vars

\* A PR with two lines, one of them inactive, was converted.
C11_Witness ==
  /\ last.op = "convert" /\ last.result = "ok"
  /\ Cardinality({ l \in DOMAIN lines : lines[l].purchase_request_id = last.pr }) = 2
  /\ \E l \in DOMAIN lines : ~lines[l].is_active
  /\ Len(po_lines) = 2

\* The values the committed calls of category c returned, in commit order.
IssuedOf(c) == SelectSeq(issued, LAMBDA e : e.category = c)

\* C12: the numbers that calls of one category return, concurrent or not,
\* are pairwise distinct and strictly increasing in the order the calls take
\* effect, and consecutive ones differ by one; a number returned to a call
\* still in flight is the successor of the last one in use.
C12_NumbersDistinctIncreasing ==
  \A c \in SeqNames \cup {"pr"} :
    LET v == IssuedOf(c) IN
    /\ \A i \in DOMAIN v : v[i].value = i
    /\ \A s \in Sessions :
         (numcall[s].phase = "updated" /\ NumCategory(numcall[s].fn, numcall[s].name) = c)
           => numcall[s].v_next = Len(v) + 1
    /\ \A s, t \in Sessions :
         (s # t /\ NumHolds(s, c) /\ numcall[s].phase = "updated")
           => ~(NumHolds(t, c) /\ numcall[t].phase = "updated")

\* Two calls for a PO number have committed, and of two calls for a PR number
\* in flight at once one holds the row and the other waits for it.
C12_Witness ==
  /\ Len(IssuedOf("po")) = 2
  /\ Len(IssuedOf("pr")) = 1
  /\ \E s \in Sessions : numcall[s].phase = "inserted" /\ numcall[s].fn = "next_pr_number"
  /\ \E s \in Sessions : numcall[s].phase = "updated" /\ numcall[s].fn = "next_pr_number"

\* Every row holds a number, and no two rows hold the same one.
Numbered(t, col) == \A i \in DOMAIN t : t[i][col] # NoNumber
DistinctNumbers(t, col) ==
  \A i, j \in DOMAIN t : i # j => t[i][col] # t[j][col]

\* C13: every PR, PO and receipt holds a document number from its creation
\* on, no later operation changes the number of an existing document, and no
\* two documents of one kind hold the same number.
C13_DocumentNumbers ==
  /\ [](/\ Numbered(prs, "pr_number") /\ DistinctNumbers(prs, "pr_number")
        /\ Numbered(pos, "po_number") /\ DistinctNumbers(pos, "po_number")
        /\ Numbered(receipts, "receipt_number")
        /\ DistinctNumbers(receipts, "receipt_number"))
  /\ [][/\ \A i \in DOMAIN prs : prs'[i].pr_number = prs[i].pr_number
        /\ \A i \in DOMAIN pos : pos'[i].po_number = pos[i].po_number
        /\ \A i \in DOMAIN receipts :
             receipts'[i].receipt_number = receipts[i].receipt_number]_vars

\* The receipt lines linked to PO line pol, those of receipt r among them,
\* and those whose receipt is not cancelled.
LinkedLines(pol) == {i \in DOMAIN receipt_lines : receipt_lines[i].purchase_order_line_id = pol}
LinkedLinesOf(pol, r) == {i \in LinkedLines(pol) : receipt_lines[i].receipt_id = r}
LiveLinkedLines(pol) ==
  {i \in LinkedLines(pol) : receipts[receipt_lines[i].receipt_id].status # "cancelled"}

RECURSIVE QtySum(_)
\* The sum of qty_received over a set of receipt lines.
QtySum(S) ==
  IF S = {} THEN 0
  ELSE LET i == CHOOSE x \in S : TRUE
       IN  receipt_lines[i].qty_received + QtySum(S \ {i})

\* C14: the received total of a PO line is the sum of qty_received over the
\* receipt lines linked to it whose receipt is not cancelled; when a receipt
\* moves to cancelled, the total of every PO line drops by the quantities of
\* exactly that receipt's linked lines.
C14_ReceivedTotalSkipsCancelled ==
  /\ [](\A pol \in DOMAIN po_lines : qty_received_total(pol) = QtySum(LiveLinkedLines(pol)))
  /\ [][\A r \in DOMAIN receipts :
          (receipts[r].status # "cancelled" /\ receipts'[r].status = "cancelled")
            => \A pol \in DOMAIN po_lines :
                 qty_received_total(pol)' =
                   qty_received_total(pol) - QtySum(LinkedLinesOf(pol, r))]_vars

\* A receipt with a linked line was cancelled while another receipt keeps its
\* linked line: the total is what the other receipt brought.
C14_Witness ==
  /\ last.op = "set_receipt_status" /\ last.result = "ok"
  /\ \E r1, r2 \in DOMAIN receipts :
       /\ r1 # r2
       /\ last.pr = r1
       /\ receipts[r1].status = "cancelled"
       /\ receipts[r2].status # "cancelled"
       /\ LinkedLinesOf(1, r1) # {}
       /\ LinkedLinesOf(1, r2) # {}
       /\ qty_received_total(1) = QtySum(LinkedLinesOf(1, r2))
       /\ qty_received_total(1) > 0

\* The quantity received against PO line pol, counted from the tables.
ReceivedAgainst(pol) == QtySum(LiveLinkedLines(pol))

\* C15: the coverage of a PO line is unknown when its ordered quantity is 0
\* or null, not_received when nothing is received, partial when the received
\* total is above 0 and below the ordered quantity, received when it is at or
\* above it.  A line of quantity 10 with 4 received is partial, and received
\* once 6 more are received.
C15_CoverageStates ==
  /\ [](/\ \A t \in 0..12 : Coverage(NullNum, t) = "unknown"
        /\ \A pol \in DOMAIN po_lines :
             LET q == po_lines[pol].qty
                 t == ReceivedAgainst(pol)
             IN  /\ q = 0 => receipt_coverage(pol) = "unknown"
                 /\ (q > 0 /\ t = 0) => receipt_coverage(pol) = "not_received"
                 /\ (q > 0 /\ 0 < t /\ t < q) => receipt_coverage(pol) = "partial"
                 /\ (q > 0 /\ t >= q) => receipt_coverage(pol) = "received")
  /\ [][\A pol \in DOMAIN po_lines :
          (po_lines[pol].qty = 10 /\ ReceivedAgainst(pol) = 4 /\ ReceivedAgainst(pol)' = 10)
            => (receipt_coverage(pol) = "partial" /\ receipt_coverage(pol)' = "received")]_vars

\* The PO line of quantity 10 has a linked receipt line of 4 and one of 6, the
\* second one just written, and is covered.
C15_Witness ==
  /\ last.op = "upsert_receipt_line" /\ last.result = "ok"
  /\ po_lines[1].qty = 10
  /\ Len(receipt_lines) = 2
  /\ receipt_lines[1].qty_received = 4 /\ receipt_lines[2].qty_received = 6
  /\ LiveLinkedLines(1) = {1, 2}
  /\ receipt_coverage(1) = "received"

\* C16: the open remaining quantity of a PO line is the ordered quantity less
\* the received total when that is positive and 0 otherwise; it is never
\* negative, also when more is received than was ordered.
C16_OpenRemainingClamped ==
  \A pol \in DOMAIN po_lines :
    LET q == po_lines[pol].qty
        t == ReceivedAgainst(pol)
    IN  /\ qty_open_remaining(pol) >= 0
        /\ q - t > 0 => qty_open_remaining(pol) = q - t
        /\ q - t <= 0 => qty_open_remaining(pol) = 0

\* More is received against the line of quantity 10 than was ordered.
C16_Witness ==
  /\ last.op = "upsert_receipt_line" /\ last.result = "ok"
  /\ po_lines[1].qty = 10
  /\ ReceivedAgainst(1) = 12
  /\ qty_open_remaining(1) = 0

\* The refusals that come before an RPC of receipts looks at the receipt.
EarlyRefusals == {"actor_required", "actor_missing", "not_allowed", "not_found"}

\* C17: a reconcile of a receipt with at least one unlinked line fails with
\* the error that names the number of unlinked lines and leaves the receipt
\* and its lines as they were; a reconcile of a receipt whose lines are all
\* linked succeeds and leaves the receipt reconciled.
C17_ReconcileNeedsAllLinked ==
  [][(last'.op = "reconcile" /\ last'.result \notin EarlyRefusals)
       => LET r == last'.pr
              n == v_unlinked(r)
          IN  IF n > 0
              THEN /\ last'.result = UnlinkedError(n)
                   /\ UNCHANGED <<receipts, receipt_lines, log>>
              ELSE /\ last'.result = "ok"
                   /\ receipts'[r].status = "reconciled"
                   /\ UNCHANGED receipt_lines]_vars

\* A receipt with a line that was written blind and linked afterwards has
\* been reconciled.
C17_Witness ==
  /\ last.op = "reconcile" /\ last.result = "ok"
  /\ receipts[1].status = "reconciled"
  /\ \E i \in DOMAIN receipt_lines : receipt_lines[i].receipt_id = 1
  /\ v_unlinked(1) = 0
  /\ \E k \in DOMAIN log : log[k].message = "Receipt line updated"
  /\ \A k \in DOMAIN log : log[k].message # "Receipt marked received"

\* C18: a mark-received that succeeds leaves the receipt in status received
\* when at least one of its lines is unlinked, and in status reconciled when
\* none is.
C18_MarkReceivedStatus ==
  [][(last'.op = "mark_received" /\ last'.result = "ok")
       => LET r == last'.pr
          IN  /\ v_unlinked(r) > 0 => receipts'[r].status = "received"
              /\ v_unlinked(r) = 0 => receipts'[r].status = "reconciled"
              /\ UNCHANGED receipt_lines]_vars

\* A receipt with a linked and a blind line has been marked received.
C18_Witness ==
  /\ last.op = "mark_received" /\ last.result = "ok"
  /\ receipts[1].status = "received"
  /\ v_unlinked(1) = 1
  /\ \E i \in DOMAIN receipt_lines :
       receipt_lines[i].receipt_id = 1 /\ receipt_lines[i].purchase_order_line_id = 1

\* C19: no receipt is created for a PO of another project: every receipt
\* that references a PO has the project of that PO.
C19_ReceiptProjectMatchesPO ==
  \A r \in DOMAIN receipts :
    receipts[r].purchase_order_id # NoId
      => /\ receipts[r].purchase_order_id \in DOMAIN pos
         /\ receipts[r].project_id = pos[receipts[r].purchase_order_id].project_id

\* The place of a PO status in draft -> issued -> acknowledged ->
\* {partially_received, received} -> closed.
PORank(st) ==
  CASE st = "draft" -> 0
    [] st = "issued" -> 1
    [] st = "acknowledged" -> 2
    [] st = "partially_received" -> 3
    [] st = "received" -> 4
    [] st = "closed" -> 5
    [] st = "cancelled" -> 6

POTerminal == {"closed", "cancelled"}

\* C20: the status of a PO changes only forward along draft -> issued ->
\* acknowledged -> {partially_received, received} -> closed, or to cancelled
\* from a status that is not terminal; closed and cancelled are left by no
\* operation, and no operation moves a PO backward.
C20_POStatusOnlyForward ==
  [][\A p \in DOMAIN pos :
       pos'[p].status # pos[p].status
         => /\ pos[p].status \notin POTerminal
            /\ PORank(pos'[p].status) > PORank(pos[p].status)]_vars

\* C21: a PO becomes issued or acknowledged only by an operation whose actor
\* has a role that satisfies canIssuePO; a call by any other actor leaves the
\* status as it was.
C21_IssueNeedsIssuerRole ==
  [][\A p \in DOMAIN pos :
       (pos'[p].status \in {"issued", "acknowledged"} /\ pos'[p].status # pos[p].status)
         => can_issue_po(pos'[p].updated_by)]_vars

\* The moves of a receipt: pending to received or reconciled, received to
\* reconciled, and pending or received to cancelled.
ReceiptEdges ==
  {<<"pending", "received">>, <<"pending", "reconciled">>, <<"received", "reconciled">>,
   <<"pending", "cancelled">>, <<"received", "cancelled">>}

\* C22: the status of a receipt changes along the moves of ReceiptEdges only;
\* reconciled and cancelled are left by no operation.
C22_ReceiptStatusEdges ==
  [][\A r \in DOMAIN receipts :
       receipts'[r].status # receipts[r].status
         => <<receipts[r].status, receipts'[r].status>> \in ReceiptEdges]_vars

\* C23: once a PO is linked to a PR, no operation changes the PR: its
\* status, header fields and approver fields stay, and so do its lines.
C23_ConvertedPRIsLocked ==
  [][\A p \in DOMAIN prs :
       prs[p].po_id # NoId
         => /\ prs'[p] = prs[p]
            /\ \A i \in DOMAIN lines' :
                 lines'[i].purchase_request_id = p
                   => (i \in DOMAIN lines /\ lines'[i] = lines[i])
            /\ \A i \in DOMAIN lines :
                 lines[i].purchase_request_id = p => lines'[i] = lines[i]]_vars

\* How a call without an existing actor ends: the actor id is missing or has
\* no profile; for the conversion, there is no session user or the session
\* user has no role.
ActorRefusals == {"actor_required", "actor_missing", "not_authenticated", "not_allowed"}

\* C24: a lifecycle operation of PRs, POs or receipts called with no actor
\* id, or with an id that matches no actor, fails and writes nothing: no
\* document, no line, no number counter and no audit entry changes.
C24_UnknownActorRefused ==
  [][\A a \in InvalidActors :
       CallBy(a) => (last'.result \in ActorRefusals /\ UNCHANGED store)]_vars

\* A call by an id without a profile was refused while a PR, a PO and a
\* receipt with their lines exist.
C24_Witness ==
  /\ last.result = "actor_missing"
  /\ prs # <<>> /\ lines # <<>> /\ pos # <<>> /\ po_lines # <<>>
  /\ receipts # <<>> /\ receipt_lines # <<>>

\* C25: the audit log only grows at its end: across every step the log
\* before is a prefix of the log after, so no entry is changed or removed.
C25_LogAppendOnly ==
  [][/\ Len(log') >= Len(log)
     /\ SubSeq(log', 1, Len(log)) = log]_vars

\* A client's UPDATE or DELETE on a log that has entries was refused.
C25_Witness ==
  /\ last.op \in {"client_update", "client_delete"}
  /\ last.result = "permission_denied"
  /\ Len(log) >= 2

\* The documents and their lines, without counters and log.
Documents == <<prs, lines, pos, po_lines, receipts, receipt_lines>>

\* The step took an approved PR back to submitted.
ApprovalReset == \E p \in DOMAIN prs : prs[p].status = "approved" /\ prs'[p].status = "submitted"

\* C26: every step that changes a PR, a PO, a receipt or one of their lines
\* appends exactly one audit entry, and exactly two when it resets an
\* approval; the conversion of a PR into a PO is such a step.
C26_OneEntryPerChange ==
  [][Documents' # Documents =>
       Len(log') = Len(log) + (IF ApprovalReset THEN 2 ELSE 1)]_vars

C28_OneApprovalWins ==
  [][\A p \in DOMAIN prs :
       ( /\ prs'[p].status = "approved"
         /\ \/ prs[p].status # "approved"
            \/ prs'[p].approved_by # prs[p].approved_by )
       => prs[p].status = "submitted"]_vars

\* C29: upsert_purchase_request_line and update_purchase_request_header
\* succeed only on a PR whose status is draft, submitted or approved; on a
\* PR in any other status they fail and change nothing.
C29_EditsOnlyWhileEditable ==
  [][\A p \in DOMAIN prs :
       (last'.op \in {"upsert_line", "upsert_pr_line", "update_header"} /\ last'.pr = p)
       => /\ last'.result = "ok" => prs[p].status \in {"draft", "submitted", "approved"}
          /\ prs[p].status \notin {"draft", "submitted", "approved"}
               => (last'.result # "ok" /\ UNCHANGED store)]_vars

\* C30: every stored PR line has a description that is not blank, a
\* quantity of 0 or more and an estimated unit cost that is null or 0 or
\* more.
C30_StoredLinesValid ==
  \A i \in DOMAIN lines :
    /\ Btrim(lines[i].description) # <<>>
    /\ lines[i].qty >= 0
    /\ lines[i].est_unit_cost = NullNum \/ lines[i].est_unit_cost[1] >= 0

\* C31: received_at and received_by of a receipt are null while it is
\* pending, are both set by the step that takes it out of pending into
\* received or reconciled, and are not changed by any later step.
C31_ReceivedStampOnce ==
  [][\A r \in DOMAIN receipts' :
       LET new == receipts'[r] IN
       /\ new.status = "pending" => (new.received_at = NULL /\ new.received_by = NULL)
       /\ r \in DOMAIN receipts =>
            LET old == receipts[r] IN
            /\ (old.status = "pending" /\ new.status \in {"received", "reconciled"})
                 => (new.received_at # NULL /\ new.received_by # NULL)
            /\ old.status # "pending"
                 => (new.received_at = old.received_at /\ new.received_by = old.received_by)]_vars

\* C32: issued_at of a PO is null while the PO is draft, is set by the step
\* that takes the PO into issued, and once set is not changed by any later
\* step.
C32_IssuedStampOnce ==
  [][\A o \in DOMAIN pos' :
       LET new == pos'[o] IN
       /\ new.status = "draft" => new.issued_at = NULL
       /\ o \in DOMAIN pos =>
            LET old == pos[o] IN
            /\ (old.status # "issued" /\ new.status = "issued") => new.issued_at # NULL
            /\ old.issued_at # NULL => new.issued_at = old.issued_at]_vars

\* C33: the PR number generator keeps one counter per calendar year: the
\* first number issued in a year has sequence 1, the numbers issued within
\* one year are strictly increasing, and a call in one year leaves the
\* counters of all other years unchanged.
C33_OneCounterPerYear ==
  [][LET e == issued'[Len(issued')] IN
     /\ Len(issued') = Len(issued) + 1
     /\ e.category \notin DOMAIN pr_number_counters => e.value = 1
     /\ \A i \in DOMAIN issued : issued[i].category = e.category => issued[i].value < e.value
     /\ \A y \in DOMAIN pr_number_counters :
          y # e.category => pr_number_counters'[y] = pr_number_counters[y]]_vars

\* A year began at sequence 1 after the year before had reached 2, and went
\* on to 2 itself.
C33_Witness ==
  /\ Len(issued) = 4
  /\ issued[2].category = CurrentYear /\ issued[2].value = 2
  /\ issued[3].category = CurrentYear + 1 /\ issued[3].value = 1
  /\ issued[4].category = CurrentYear + 1 /\ issued[4].value = 2
  /\ pr_number_counters[CurrentYear] = 2

\* C34: the project of every PR line is the project of the PR the line
\* belongs to, whatever project the caller of a line upsert passes.
C34_LineProjectIsPRProject ==
  \A i \in DOMAIN lines :
    lines[i].project_id = prs[lines[i].purchase_request_id].project_id

\* canReconcile: the roles reconcile_receipt lets through.
canReconcile(v_uid) ==
  role_in(v_uid, {"purchasing", "ops", "accounting", "executive", "admin", "commandant"})

\* The actors that may receive and may not reconcile: shop and super.
ReceiveOnly == { u \in DOMAIN profiles : can_receive(u) /\ ~canReconcile(u) }

\* C35: no call of mark_receipt_received, reconcile_receipt or
\* set_receipt_status made by an actor that may receive but may not
\* reconcile takes a receipt into reconciled.
C35_ReconciledNeedsReconciler ==
  [][\A a \in ReceiveOnly, r \in DOMAIN receipts :
       ( \/ mark_receipt_received(r, a, a)
         \/ reconcile_receipt(r, a, a)
         \/ \E s \in receipt_status : set_receipt_status(r, s, a) )
       => (receipts'[r].status = "reconciled" => receipts[r].status = "reconciled")]_vars

\* C36: when an approval takes effect, its approver is authorized for the
\* total the PR has at that moment, also when lines are written while the
\* approval is in flight.
C36_GateSeesTotalAtApproval ==
  [][\A p \in DOMAIN prs :
       (prs[p].status # "approved" /\ prs'[p].status = "approved")
       => can_approve_pr(prs'[p].approved_by, pr_est_total(p)')]_vars

\* C37: in every reachable state the recorded approver of an approved PR is
\* authorized for the PR's current total over its active lines.
C37_ApprovedWithinApproverLimit ==
  \A p \in DOMAIN prs :
    prs[p].status = "approved"
    => can_approve_pr(prs[p].approved_by, pr_est_total(p))

\* The audit entries of PR p that record a status change, oldest first.
StatusChange(p, e) ==
  /\ e.entity_type = "purchase_request" /\ e.entity_id = p
  /\ e.from_status # e.to_status

StatusChanges(p) == SelectSeq(log, LAMBDA e : StatusChange(p, e))

\* C38: the status-change entries of every PR form a chain: the first goes
\* from no status to draft, each later one starts where the previous one
\* ended, and the last one ends at the PR's current status.
C38_StatusEntriesChain ==
  \A p \in DOMAIN prs :
    LET c == StatusChanges(p) IN
    /\ c # <<>>
    /\ c[1].from_status = NULL /\ c[1].to_status = "draft"
    /\ \A i \in 2..Len(c) : c[i].from_status = c[i - 1].to_status
    /\ c[Len(c)].to_status = prs[p].status

\* C39: in every reachable state a reconciled receipt has no receipt line
\* without a PO line, also after lines are added or edited once it is
\* reconciled.
C39_ReconciledHasNoBlindLine ==
  \A r \in DOMAIN receipts :
    receipts[r].status = "reconciled" => v_unlinked(r) = 0

\* C40: formatting is injective: two distinct sequence values formatted
\* under the same prefix (and year) give two distinct document numbers, also
\* when a value has more digits than the pad width.
C40_FormattingInjective ==
  \A i, j \in DOMAIN issued :
    (issued[i].category = issued[j].category /\ issued[i].value # issued[j].value)
    => issued[i].text # issued[j].text
====
